---------------------------- MODULE Spec2Model ----------------------------
(***************************************************************************)
(* A model of abaculus (src/lib/index.js): the dimension resolver, the     *)
(* tile grid planner and the concurrent fetch-and-stitch orchestrator;     *)
(* and of the callback revisions (src/index.js, src/unnamed/part_000):     *)
(* their center resolver, header-merging stitchTiles and headerReduce.     *)
(*                                                                         *)
(* Numbers that the JavaScript code keeps as doubles are modelled as exact *)
(* rationals [num, den] with den > 0.  The inputs are dyadic (tile sizes   *)
(* and scales are powers of two), for which the double arithmetic of the   *)
(* code is exact, so the rational model and the code agree on them.  For   *)
(* tile sizes that are not powers of two the offsets are modelled a second *)
(* time in IEEE 754 binary64 arithmetic (SpecDouble).                      *)
(***************************************************************************)
EXTENDS Integers, Sequences, FiniteSets, TLC

VARIABLES
    planIn,      \* arguments of tileList / offsetList
    tilesOut,    \* outcome of abaculus.tileList(planIn)
    offsetsOut,  \* outcome of abaculus.offsetList(planIn)
    dimIn,       \* arguments of scaleDimensions / getDimensionsFromBbox
    dimOut,      \* outcome of the dimension resolver
    pc,          \* position of the abaculus / stitchTiles call
    options,     \* the options object given to abaculus (<<>>: direct call)
    args,        \* arguments of abaculus.stitchTiles
    promises,    \* promises[i]: the promise of tile i returned by getTiles
    getTileLog,  \* the (z, x, y) calls received by the tile source, in order
    yielded,     \* what the tile source answered to call i (environment history)
    failLog,     \* the errors of the failing fetches, in order of failure
    microtasks,  \* settled tile promises whose Promise.all reaction is pending
    all,         \* the Promise.all promise
    blendLog,    \* the calls received by the compositor
    result,      \* outcome of the stitchTiles / abaculus call
    hdrIn,       \* arguments of headerReduce (and the clock it reads)
    hdrOut,      \* outcome of headerReduce
    callbackLog, \* the invocations of the callback given to stitchTiles
    centerIn,    \* arguments of the center resolver, the center as first given
    centerObj,   \* the caller's center object
    resolved,    \* the outcomes of the successive resolutions of centerObj
    doubleIn,    \* arguments of offsetList, evaluated in binary64
    doubleOut,   \* outcome of abaculus.offsetList(doubleIn) in binary64
    requestIn,   \* a center request: geographic center, dimensions, zoom, tileSize
    plansOut,    \* plansOut[s]: the tile list planned for requestIn at scale s
    legacyOut    \* outcome of the legacy tileList(planIn) of src/index.js

planVars == <<planIn, tilesOut, offsetsOut>>
dimVars == <<dimIn, dimOut>>
stitchVars == <<pc, options, args, promises, getTileLog, yielded, failLog,
                microtasks, all, blendLog, result>>
hdrVars == <<hdrIn, hdrOut>>
centerVars == <<centerIn, centerObj, resolved>>
doubleVars == <<doubleIn, doubleOut>>
requestVars == <<requestIn, plansOut>>
legacyVars == <<legacyOut>>
vars == <<planIn, tilesOut, offsetsOut, dimIn, dimOut, pc, options, args,
          promises, getTileLog, yielded, failLog, microtasks, all, blendLog,
          result, hdrIn, hdrOut, callbackLog, centerIn, centerObj, resolved,
          doubleIn, doubleOut,
          requestIn, plansOut,
          legacyOut>>

---------------------------------------------------------------------------
(* Bounds of the model *)

MaxZoom == 2
MaxCenter == 3
MaxDim == 4
MaxLimit == 4
MaxPx == 3
MaxTiles == 2
MaxHeaders == 2
MaxAge == 1

---------------------------------------------------------------------------
(* JavaScript numbers as exact rationals *)

R(n) == [num |-> n, den |-> 1]
Frac(n, d) == [num |-> n, den |-> d]
RAdd(a, b) == [num |-> a.num * b.den + b.num * a.den, den |-> a.den * b.den]
RSub(a, b) == [num |-> a.num * b.den - b.num * a.den, den |-> a.den * b.den]
RMul(a, b) == [num |-> a.num * b.num, den |-> a.den * b.den]
\* a / b for b # 0
RDiv(a, b) ==
    IF b.num > 0
    THEN [num |-> a.num * b.den, den |-> a.den * b.num]
    ELSE [num |-> -(a.num * b.den), den |-> -(a.den * b.num)]

\* Math.floor
MathFloor(a) == a.num \div a.den

\* rounding to the nearest integer, a tie going away from zero
RoundHalfAwayFromZero(a) ==
    IF a.num >= 0
    THEN (2 * a.num + a.den) \div (2 * a.den)
    ELSE -((2 * (-a.num) + a.den) \div (2 * a.den))

\* Math.round: the nearest integer, a tie going to the larger one
MathRound(a) == (2 * a.num + a.den) \div (2 * a.den)

\* Math.pow(2, zoom)
RECURSIVE Pow2(_)
Pow2(n) == IF n = 0 THEN 1 ELSE 2 * Pow2(n - 1)

\* the % operator: the remainder takes the sign of the dividend
JsRem(a, m) == IF a >= 0 THEN a % m ELSE -((-a) % m)

\* the outcome of a call: a returned value or a thrown Error
Return(v) == [threw |-> FALSE, error |-> "", value |-> v]
Throw(msg) == [threw |-> TRUE, error |-> msg, value |-> <<>>]
NotCalled == [threw |-> FALSE, error |-> "not called", value |-> <<>>]

---------------------------------------------------------------------------
(* The tile grid planner *)

pointToTile(point, tileSize) ==
    [column |-> RDiv(point.x, R(tileSize)),
     row |-> RDiv(point.y, R(tileSize))]

\* ClampRow without the clamp: the corner row is kept as computed
ClampRowNone(row, maxTilesInRow) == row

\* the clamp of a corner row into [0, maxTilesInRow)
ClampRow(row, maxTilesInRow) ==
    IF row < 0 THEN 0
    ELSE IF row >= maxTilesInRow THEN maxTilesInRow - 1
    ELSE row

getTileCoordinateFromPointInPixels(center, point, dimensions, tileSize, scale, zoom) ==
    LET size == MathFloor(RMul(R(tileSize), scale))
        maxTilesInRow == Pow2(zoom)
        centerTileCoordinates == pointToTile(center, tileSize)
        tileCordinateOffset ==
            [column |-> RDiv(RSub(R(point.x), RDiv(R(dimensions.width), R(2))), R(size)),
             row |-> RDiv(RSub(R(point.y), RDiv(R(dimensions.height), R(2))), R(size))]
        tileCoordinate ==
            [column |-> MathFloor(RAdd(centerTileCoordinates.column, tileCordinateOffset.column)),
             row |-> MathFloor(RAdd(centerTileCoordinates.row, tileCordinateOffset.row))]
    IN  [column |-> tileCoordinate.column,
         row |-> ClampRow(tileCoordinate.row, maxTilesInRow)]

\* RowLoop stopping before the last row: row < lastRow
RECURSIVE RowLoopExclusive(_, _, _)
RowLoopExclusive(column, row, lastRow) ==
    IF row < lastRow
    THEN <<[x |-> column, y |-> row]>> \o RowLoopExclusive(column, row + 1, lastRow)
    ELSE <<>>

\* the inner loop of coordinates: for (row = row; row <= lastRow; row++)
RECURSIVE RowLoop(_, _, _)
RowLoop(column, row, lastRow) ==
    IF row <= lastRow
    THEN <<[x |-> column, y |-> row]>> \o RowLoop(column, row + 1, lastRow)
    ELSE <<>>

\* ColumnLoop with the loops exchanged: all columns of a row before the next row
RECURSIVE ColumnLoopRowMajor(_, _, _, _)
ColumnLoopRowMajor(column, lastColumn, firstRow, lastRow) ==
    IF firstRow <= lastRow /\ column <= lastColumn
    THEN [i \in 1..(lastColumn - column + 1) |-> [x |-> column + i - 1, y |-> firstRow]]
         \o ColumnLoopRowMajor(column, lastColumn, firstRow + 1, lastRow)
    ELSE <<>>

\* the outer loop of coordinates: for (column = column; column <= lastColumn; column++)
RECURSIVE ColumnLoop(_, _, _, _)
ColumnLoop(column, lastColumn, firstRow, lastRow) ==
    IF column <= lastColumn
    THEN RowLoop(column, firstRow, lastRow)
         \o ColumnLoop(column + 1, lastColumn, firstRow, lastRow)
    ELSE <<>>

coordinates(zoom, scale, center, dimensions, tileSize) ==
    LET topLeft == getTileCoordinateFromPointInPixels(
                       center, [x |-> 0, y |-> 0], dimensions, tileSize, scale, zoom)
        bottomRight == getTileCoordinateFromPointInPixels(
                       center, [x |-> dimensions.width, y |-> dimensions.height],
                       dimensions, tileSize, scale, zoom)
        coords == ColumnLoop(topLeft.column, bottomRight.column,
                             topLeft.row, bottomRight.row)
    IN  IF Len(coords) = 0 THEN Throw("No coords object") ELSE Return(coords)

\* WrapColumn without the shift of a negative remainder
WrapColumnRemainderOnly(column, maxTilesInRow) == JsRem(column, maxTilesInRow)

\* the wrap of a column into [0, maxTilesInRow)
WrapColumn(column, maxTilesInRow) ==
    LET wrapped == JsRem(column, maxTilesInRow)
    IN  IF wrapped < 0 THEN maxTilesInRow + wrapped ELSE wrapped

\* the address tileList gives to one enumerated cell
TileAddress(coordinate, zoom) ==
    [z |-> zoom,
     x |-> WrapColumn(coordinate.x, Pow2(zoom)),
     y |-> coordinate.y]

\* getOffsetFromCenterInPixels with each offset clipped to the canvas
getOffsetClippedToCanvas(center, tileCoordinates, dimensions, tileSize, scale) ==
    LET size == MathFloor(RMul(R(tileSize), scale))
        centerTileCoordinates == pointToTile(center, tileSize)
        x == MathRound(RAdd(RDiv(R(dimensions.width), R(2)),
                 RMul(R(size), RSub(R(tileCoordinates.column),
                                    centerTileCoordinates.column))))
        y == MathRound(RAdd(RDiv(R(dimensions.height), R(2)),
                 RMul(R(size), RSub(R(tileCoordinates.row),
                                    centerTileCoordinates.row))))
    IN  [x |-> IF x < 0 THEN 0 ELSE IF x > dimensions.width THEN dimensions.width ELSE x,
         y |-> IF y < 0 THEN 0 ELSE IF y > dimensions.height THEN dimensions.height ELSE y]

getOffsetFromCenterInPixels(center, tileCoordinates, dimensions, tileSize, scale) ==
    LET size == MathFloor(RMul(R(tileSize), scale))
        centerTileCoordinates == pointToTile(center, tileSize)
    IN  [x |-> MathRound(RAdd(RDiv(R(dimensions.width), R(2)),
                   RMul(R(size), RSub(R(tileCoordinates.column),
                                      centerTileCoordinates.column)))),
         y |-> MathRound(RAdd(RDiv(R(dimensions.height), R(2)),
                   RMul(R(size), RSub(R(tileCoordinates.row),
                                      centerTileCoordinates.row))))]

tileList(zoom, scale, center, dimensions, tileSize) ==
    LET coords == coordinates(zoom, scale, center, dimensions, tileSize)
    IN  IF coords.threw THEN coords
        ELSE Return([i \in 1..Len(coords.value) |->
                        TileAddress(coords.value[i], zoom)])

\* offsetList enumerating the rows of the canvas before the clamp of the corners
offsetListUnclamped(zoom, scale, center, dimensions, tileSize) ==
    LET size == MathFloor(RMul(R(tileSize), scale))
        rawRow(py) == MathFloor(RAdd(pointToTile(center, tileSize).row,
                          RDiv(RSub(R(py), RDiv(R(dimensions.height), R(2))), R(size))))
        topLeft == getTileCoordinateFromPointInPixels(
                       center, [x |-> 0, y |-> 0], dimensions, tileSize, scale, zoom)
        bottomRight == getTileCoordinateFromPointInPixels(
                       center, [x |-> dimensions.width, y |-> dimensions.height],
                       dimensions, tileSize, scale, zoom)
        coords == ColumnLoop(topLeft.column, bottomRight.column,
                             rawRow(0), rawRow(dimensions.height))
    IN  IF Len(coords) = 0 THEN Throw("No coords object")
        ELSE Return([i \in 1..Len(coords) |->
                        getOffsetFromCenterInPixels(center,
                            [column |-> coords[i].x, row |-> coords[i].y],
                            dimensions, tileSize, scale)])

offsetList(zoom, scale, center, dimensions, tileSize) ==
    LET coords == coordinates(zoom, scale, center, dimensions, tileSize)
    IN  IF coords.threw THEN coords
        ELSE Return([i \in 1..Len(coords.value) |->
                        getOffsetFromCenterInPixels(center,
                            [column |-> coords.value[i].x, row |-> coords.value[i].y],
                            dimensions, tileSize, scale)])

---------------------------------------------------------------------------
(* The dimension resolver.  The Mercator projection (sphericalmercator's   *)
(* px) is an external library: the resolver is given the projected corners *)
(* bottomLeft and topRight of the bbox, integer pixel points.              *)

\* scaleDimensions accepting a side equal to the limit
scaleDimensionsInclusive(dimensions, scale, limit) ==
    LET width == MathRound(RMul(R(dimensions.width), scale))
        height == MathRound(RMul(R(dimensions.height), scale))
    IN  IF width > limit \/ height > limit
        THEN Throw("Desired image is too large.")
        ELSE Return([width |-> width, height |-> height])

scaleDimensions(dimensions, scale, limit) ==
    LET width == MathRound(RMul(R(dimensions.width), scale))
        height == MathRound(RMul(R(dimensions.height), scale))
    IN  IF width >= limit \/ height >= limit
        THEN Throw("Desired image is too large.")
        ELSE Return([width |-> width, height |-> height])

getDimensionsFromBbox(bottomLeft, topRight, scale, limit) ==
    LET width0 == topRight[1] - bottomLeft[1]
        height0 == bottomLeft[2] - topRight[2]
        width == MathRound(RMul(R(width0), scale))
        height == MathRound(RMul(R(height0), scale))
    IN  IF width0 <= 0 \/ height0 <= 0
        THEN Throw("Incorrect coordinates")
        ELSE IF width >= limit \/ height >= limit
        THEN Throw("Desired image is too large.")
        ELSE Return([width |-> width, height |-> height])

getCenterInPixelsFromBbox(bottomLeft, topRight) ==
    LET width == topRight[1] - bottomLeft[1]
        height == bottomLeft[2] - topRight[2]
    IN  [x |-> RSub(R(topRight[1]), RDiv(R(width), R(2))),
         y |-> RAdd(R(topRight[2]), RDiv(R(height), R(2)))]

getCenterInPixels(centerInPx) ==
    [x |-> R(centerInPx[1]), y |-> R(centerInPx[2])]

---------------------------------------------------------------------------
(* Input domains *)

Scales == {Frac(1, 4), Frac(1, 2), R(1), R(2)}
TileSizes == {2, 4}

\* the arguments of the test 'create list of tile coordinates'
TestScenario ==
    [zoom |-> 5, scale |-> R(4), tileSize |-> 256,
     center |-> [x |-> R(4096), y |-> R(4096)],
     dimensions |-> [width |-> 1824, height |-> 1832]]

PlanInputs ==
    {in \in [zoom : 0..MaxZoom, scale : Scales, tileSize : TileSizes,
             center : [x : {R(c) : c \in -1..MaxCenter},
                       y : {R(c) : c \in -1..MaxCenter}],
             dimensions : [width : 0..MaxDim, height : 0..MaxDim]] :
        \* a tile footprint of at least one pixel
        MathFloor(RMul(R(in.tileSize), in.scale)) >= 1}
    \cup {TestScenario}

DimInputs ==
    [fn : {"scaleDimensions"},
     dimensions : [width : 0..MaxDim, height : 0..MaxDim],
     bottomLeft : {<<0, 0>>}, topRight : {<<0, 0>>},
     scale : Scales, limit : 1..MaxLimit]
    \cup
    [fn : {"getDimensionsFromBbox"},
     dimensions : {[width |-> 0, height |-> 0]},
     bottomLeft : (0..MaxPx) \X (0..MaxPx), topRight : (0..MaxPx) \X (0..MaxPx),
     scale : Scales, limit : 1..MaxLimit]

---------------------------------------------------------------------------
(* The planner called on one set of arguments *)

StitchIdle ==
    /\ pc = "idle"
    /\ options = <<>>
    /\ args = <<>>
    /\ promises = <<>>
    /\ getTileLog = <<>>
    /\ yielded = <<>>
    /\ failLog = <<>>
    /\ microtasks = <<>>
    /\ all = <<>>
    /\ blendLog = <<>>
    /\ result = NotCalled

PlanIdle ==
    /\ planIn = <<>>
    /\ tilesOut = NotCalled
    /\ offsetsOut = NotCalled

DimIdle ==
    /\ dimIn = <<>>
    /\ dimOut = NotCalled

HdrIdle ==
    /\ hdrIn = <<>>
    /\ hdrOut = NotCalled
    /\ callbackLog = <<>>

CenterIdle ==
    /\ centerIn = <<>>
    /\ centerObj = <<>>
    /\ resolved = <<>>

DoubleIdle ==
    /\ doubleIn = <<>>
    /\ doubleOut = NotCalled

RequestIdle ==
    /\ requestIn = <<>>
    /\ plansOut = <<>>

LegacyIdle == legacyOut = NotCalled

InitPlan ==
    /\ planIn \in PlanInputs
    /\ tilesOut = NotCalled
    /\ offsetsOut = NotCalled
    /\ DimIdle
    /\ StitchIdle
    /\ LegacyIdle
    /\ DoubleIdle
    /\ RequestIdle
    /\ HdrIdle
    /\ CenterIdle

TileListCall ==
    /\ tilesOut = NotCalled
    /\ tilesOut' = tileList(planIn.zoom, planIn.scale, planIn.center,
                            planIn.dimensions, planIn.tileSize)
    /\ UNCHANGED <<legacyVars, requestVars, doubleVars, planIn, offsetsOut, dimVars, stitchVars, hdrVars, callbackLog,
                   centerVars>>

OffsetListCall ==
    /\ offsetsOut = NotCalled
    /\ offsetsOut' = offsetList(planIn.zoom, planIn.scale, planIn.center,
                                planIn.dimensions, planIn.tileSize)
    /\ UNCHANGED <<legacyVars, requestVars, doubleVars, planIn, tilesOut, dimVars, stitchVars, hdrVars, callbackLog,
                   centerVars>>

NextPlan == TileListCall \/ OffsetListCall

SpecPlan == InitPlan /\ [][NextPlan]_vars

\* the planner called on arguments whose dimensions may be negative
SignedPlanInputs ==
    {in \in [zoom : 0..MaxZoom, scale : Scales, tileSize : TileSizes,
             center : [x : {R(c) : c \in -1..MaxCenter},
                       y : {R(c) : c \in -1..MaxCenter}],
             dimensions : [width : -1..MaxDim, height : -1..MaxDim]] :
        MathFloor(RMul(R(in.tileSize), in.scale)) >= 1}

InitPlanSigned ==
    /\ planIn \in SignedPlanInputs
    /\ tilesOut = NotCalled
    /\ offsetsOut = NotCalled
    /\ DimIdle
    /\ StitchIdle
    /\ LegacyIdle
    /\ DoubleIdle
    /\ RequestIdle
    /\ HdrIdle
    /\ CenterIdle

SpecPlanSigned == InitPlanSigned /\ [][NextPlan]_vars

---------------------------------------------------------------------------
(* The dimension resolver called on one set of arguments *)

InitDim ==
    /\ dimIn \in DimInputs
    /\ dimOut = NotCalled
    /\ PlanIdle
    /\ StitchIdle
    /\ LegacyIdle
    /\ DoubleIdle
    /\ RequestIdle
    /\ HdrIdle
    /\ CenterIdle

ScaleDimensionsCall ==
    /\ dimIn.fn = "scaleDimensions"
    /\ dimOut = NotCalled
    /\ dimOut' = scaleDimensions(dimIn.dimensions, dimIn.scale, dimIn.limit)
    /\ UNCHANGED <<legacyVars, requestVars, doubleVars, dimIn, planVars, stitchVars, hdrVars, callbackLog,
                   centerVars>>

GetDimensionsFromBboxCall ==
    /\ dimIn.fn = "getDimensionsFromBbox"
    /\ dimOut = NotCalled
    /\ dimOut' = getDimensionsFromBbox(dimIn.bottomLeft, dimIn.topRight,
                                       dimIn.scale, dimIn.limit)
    /\ UNCHANGED <<legacyVars, requestVars, doubleVars, dimIn, planVars, stitchVars, hdrVars, callbackLog,
                   centerVars>>

NextDim == ScaleDimensionsCall \/ GetDimensionsFromBboxCall

SpecDim == InitDim /\ [][NextDim]_vars

---------------------------------------------------------------------------
(* The fetch-and-stitch orchestrator.                                      *)
(*                                                                         *)
(* An optional property of a JavaScript object is a sequence: <<>> when    *)
(* absent, <<v>> when present.  options.center and options.bbox carry the  *)
(* projected pixel points that sphericalmercator's px gives for them.      *)
(*                                                                         *)
(* The tile source invokes the callback of a fetch either during the       *)
(* getTile call of that fetch (a synchronous answer or throw) or later,    *)
(* once the synchronous part of stitchTiles has reached its await.         *)

DefaultZoom == 0
DefaultLimit == 19008
DefaultTileSize == 256

OrElse(opt, default) == IF opt = <<>> THEN default ELSE opt[1]

\* defaults without the check of the coordinates
defaultsNoCoordinates(opts) ==
    IF ~opts.getTile
    THEN Throw("Invalid function for getting tiles")
    ELSE Return([zoom |-> OrElse(opts.zoom, DefaultZoom),
                 scale |-> OrElse(opts.scale, R(1)),
                 limit |-> OrElse(opts.limit, DefaultLimit),
                 tileSize |-> OrElse(opts.tileSize, DefaultTileSize)])

defaults(opts) ==
    IF ~opts.getTile
    THEN Throw("Invalid function for getting tiles")
    ELSE IF opts.center = <<>> /\ opts.bbox = <<>>
    THEN Throw("No coordinates provided.")
    ELSE Return([zoom |-> OrElse(opts.zoom, DefaultZoom),
                 scale |-> OrElse(opts.scale, R(1)),
                 limit |-> OrElse(opts.limit, DefaultLimit),
                 tileSize |-> OrElse(opts.tileSize, DefaultTileSize)])

\* abaculus, lines 23-27: the two lists of the planner, from the resolved
\* center and dimensions
PlanGrid(o, center, dimensions) ==
    LET coords == tileList(o.zoom, o.scale, center, dimensions, o.tileSize)
        offsets == offsetList(o.zoom, o.scale, center, dimensions, o.tileSize)
    IN  IF coords.threw THEN coords
        ELSE IF offsets.threw THEN offsets
        ELSE Return([coords |-> coords.value, offsets |-> offsets.value,
                     dimensions |-> dimensions])

\* abaculus, lines 13-17: the center in pixels
PlanCenter(opts) ==
    IF opts.bbox # <<>>
    THEN Return(getCenterInPixelsFromBbox(opts.bbox[1].bottomLeft,
                                          opts.bbox[1].topRight))
    ELSE IF opts.center = <<>>
    THEN Throw("TypeError")
    ELSE Return(getCenterInPixels(opts.center[1]))

\* abaculus, lines 19-21: the dimensions, with the outcome d of defaults
PlanDimensions(opts, d) ==
    IF d.threw THEN d
    ELSE IF opts.bbox # <<>>
    THEN getDimensionsFromBbox(opts.bbox[1].bottomLeft, opts.bbox[1].topRight,
                               d.value.scale, d.value.limit)
    ELSE IF opts.dimensions = <<>>
    THEN Throw("TypeError")
    ELSE scaleDimensions(opts.dimensions[1], d.value.scale, d.value.limit)

\* the synchronous part of abaculus up to the call of stitchTiles, from the
\* outcomes of its steps: the arguments of stitchTiles, or the first Error thrown
Plan(d, center, dimensions) ==
    IF d.threw THEN d
    ELSE IF center.threw THEN center
    ELSE IF dimensions.threw THEN dimensions
    ELSE PlanGrid(d.value, center.value, dimensions.value)

NoTile == [tile |-> [z |-> 0, x |-> 0, y |-> 0], call |-> 0]
NoAnswer == [order |-> 0, sync |-> FALSE, ok |-> FALSE, buffer |-> NoTile,
             stats |-> <<>>, error |-> ""]
Pending == [state |-> "pending", value |-> [buffer |-> NoTile, stats |-> <<>>],
            reason |-> ""]

\* getTiles maps over the whole list: a fetch is issued for every position
\* CanIssue stopping at the first fetch that has failed
CanIssueUntilFailure(issued, coords) ==
    /\ Len(issued) < Len(coords)
    /\ \A i \in 1..Len(issued) : issued[i].state # "rejected"

CanIssue(issued, coords) == Len(issued) < Len(coords)

\* Promise.all(promises) when called
AllCalled(n) ==
    [state |-> IF n = 0 THEN "fulfilled" ELSE "pending",
     values |-> [i \in 1..n |-> [buffer |-> NoTile, stats |-> <<>>]],
     remaining |-> n,
     reason |-> ""]

\* Promise.all storing a value at its position of completion
AllOnFulfilledInCompletionOrder(a, i, value) ==
    IF a.state # "pending" THEN a
    ELSE [a EXCEPT !.values[Len(a.values) - a.remaining + 1] = value,
                   !.remaining = a.remaining - 1,
                   !.state = IF a.remaining = 1 THEN "fulfilled" ELSE "pending"]

\* a join that is fulfilled by the first fulfilled promise
AllOnFulfilledFirst(a, i, value) ==
    IF a.state # "pending" THEN a
    ELSE [a EXCEPT !.values[i] = value,
                   !.remaining = a.remaining - 1,
                   !.state = "fulfilled"]

\* Promise.all: promise i is fulfilled with value
AllOnFulfilled(a, i, value) ==
    IF a.state # "pending" THEN a
    ELSE [a EXCEPT !.values[i] = value,
                   !.remaining = a.remaining - 1,
                   !.state = IF a.remaining = 1 THEN "fulfilled" ELSE "pending"]

\* a join that reports the last rejection
AllOnRejectedLast(a, reason) ==
    [a EXCEPT !.state = "rejected", !.reason = reason]

\* Promise.all: a promise is rejected with reason
AllOnRejected(a, reason) ==
    IF a.state # "pending" THEN a
    ELSE [a EXCEPT !.state = "rejected", !.reason = reason]

\* render || 0 of one tile
RenderOf(tile) == IF Len(tile.stats) = 0 THEN 0 ELSE tile.stats[1]

RECURSIVE RenderTotal(_, _)
RenderTotal(tiles, n) ==
    IF n = 0 THEN 0 ELSE RenderTotal(tiles, n - 1) + RenderOf(tiles[n])

calculateStats(tiles) ==
    LET numTiles == Len(tiles)
        renderTotal == RenderTotal(tiles, numTiles)
    IN  [tiles |-> numTiles,
         renderAvg |-> MathRound(Frac(renderTotal, numTiles))]

\* the positioned images and options blendTiles hands to blend
blendTiles(tiles, offsets, dimensions) ==
    [buffers |-> [index \in 1..Len(tiles) |->
                     IF index \in 1..Len(offsets)
                     THEN [buffer |-> tiles[index].buffer,
                           x |-> offsets[index].x, y |-> offsets[index].y]
                     ELSE [buffer |-> tiles[index].buffer, x |-> 0, y |-> 0]],
     options |-> [width |-> dimensions.width, height |-> dimensions.height,
                  reencode |-> TRUE]]

OptionSets ==
    [getTile : BOOLEAN,
     center : {<<>>, << <<1, 1>> >>},
     bbox : {<<>>, <<[bottomLeft |-> <<0, 1>>, topRight |-> <<2, 0>>]>>},
     dimensions : {<<>>, <<[width |-> 2, height |-> 1]>>},
     zoom : {<<>>, <<1>>},
     scale : {<<>>},
     limit : {<<>>},
     tileSize : {<<>>, <<2>>}]

Addresses == {[z |-> 1, x |-> 0, y |-> 0], [z |-> 1, x |-> 1, y |-> 0]}
TileErrors == {"Tile does not exist", "Tile source timeout"}
Renders == {<<>>, <<10>>}

\* the lists of at most n elements of S
SeqsUpTo(S, n) == UNION {[1..k -> S] : k \in 0..n}

\* the arguments of a direct call of stitchTiles
StitchArgs ==
    {[coords |-> c,
      offsets |-> [i \in 1..Len(c) |-> [x |-> 2 * (i - 1), y |-> 0]],
      dimensions |-> [width |-> 2 * Len(c), height |-> 2]] :
        c \in SeqsUpTo(Addresses, MaxTiles)}

\* the arguments of a direct call of stitchTiles with null in place of the
\* list of tile coordinates (and of the list of offsets)
NullCoordsArgs ==
    [coords |-> <<>>, offsets |-> <<>>, dimensions |-> [width |-> 2, height |-> 2],
     coordsIsNull |-> TRUE]

\* the TypeError of tileCoords.map for tileCoords = null
NullMapTypeError == "TypeError: Cannot read properties of null (reading 'map')"

Init ==
    /\ StitchIdle
    /\ LegacyIdle
    /\ DoubleIdle
    /\ RequestIdle
    /\ PlanIdle
    /\ DimIdle
    /\ HdrIdle
    /\ CenterIdle

\* abaculus(options): the synchronous part, up to the first getTile call
AbaculusCall ==
    /\ pc = "idle"
    /\ \E opts \in OptionSets :
       \E d \in {defaults(opts)} :
       \E center \in {PlanCenter(opts)} :
       \E dimensions \in {PlanDimensions(opts, d)} :
       \E plan \in {Plan(d, center, dimensions)} :
            /\ options' = <<opts>>
            /\ IF plan.threw
               THEN /\ pc' = "settled"
                    /\ result' = plan
                    /\ args' = args
               ELSE /\ pc' = "issuing"
                    /\ args' = plan.value
                    /\ result' = result
    /\ UNCHANGED <<legacyVars, requestVars, doubleVars, promises, getTileLog, yielded, failLog, microtasks, all,
                   blendLog, planVars, dimVars, hdrVars, callbackLog,
                   centerVars>>

\* abaculus.stitchTiles(coords, offsets, dimensions, ...) called directly
StitchTilesCall ==
    /\ pc = "idle"
    /\ \E a \in StitchArgs : args' = a
    /\ pc' = "issuing"
    /\ UNCHANGED <<legacyVars, requestVars, doubleVars, options, promises, getTileLog, yielded, failLog, microtasks,
                   all, blendLog, result, planVars, dimVars, hdrVars, callbackLog,
                   centerVars>>

\* abaculus.stitchTiles(null, null, dimensions, ...): getTiles promisifies
\* getTile and calls null.map, whose TypeError rejects the async call
StitchTilesNullCall ==
    /\ pc = "idle"
    /\ args' = NullCoordsArgs
    /\ result' = Throw(NullMapTypeError)
    /\ pc' = "settled"
    /\ UNCHANGED <<legacyVars, requestVars, doubleVars, options, promises, getTileLog, yielded, failLog, microtasks,
                   all, blendLog, planVars, dimVars, hdrVars, callbackLog,
                   centerVars>>

\* getTiles: the next getTilePromisified(z, x, y) of the map
IssueFetch ==
    /\ pc = "issuing"
    /\ CanIssue(promises, args.coords)
    /\ LET c == args.coords[Len(promises) + 1]
       IN  getTileLog' = Append(getTileLog, <<c.z, c.x, c.y>>)
    /\ promises' = Append(promises, Pending)
    /\ yielded' = Append(yielded, NoAnswer)
    /\ UNCHANGED <<legacyVars, requestVars, doubleVars, pc, options, args, failLog, microtasks, all, blendLog, result,
                   planVars, dimVars, hdrVars, callbackLog, centerVars>>

\* the fetches a callback may answer now
Answerable ==
    {i \in 1..Len(promises) :
        /\ yielded[i].order = 0
        /\ pc = "issuing" => i = Len(promises)}

Answered == Cardinality({i \in 1..Len(yielded) : yielded[i].order # 0})

\* the tile source answers fetch i with a tile: callback(null, tile, headers, stats);
\* the then of getTiles keeps the tile and takes its default stats = {}
TileCallbackOk ==
    \E i \in Answerable, render \in Renders :
        LET buffer == [tile |-> args.coords[i], call |-> i]
        IN  /\ yielded' = [yielded EXCEPT ![i] =
                   [order |-> Answered + 1, sync |-> pc = "issuing", ok |-> TRUE,
                    buffer |-> buffer, stats |-> render, error |-> ""]]
            /\ promises' = [promises EXCEPT ![i] =
                   [state |-> "fulfilled",
                    value |-> [buffer |-> buffer, stats |-> <<>>],
                    reason |-> ""]]
            /\ microtasks' = Append(microtasks, i)
            /\ UNCHANGED <<legacyVars, requestVars, doubleVars, pc, options, args, getTileLog, failLog, all, blendLog,
                           result, planVars, dimVars, hdrVars, callbackLog,
                   centerVars>>

\* the tile source fails fetch i: callback(err), or getTile throws
TileCallbackError ==
    \E i \in Answerable, err \in TileErrors :
        /\ yielded' = [yielded EXCEPT ![i] =
               [order |-> Answered + 1, sync |-> pc = "issuing", ok |-> FALSE,
                buffer |-> NoTile, stats |-> <<>>, error |-> err]]
        /\ promises' = [promises EXCEPT ![i] =
               [state |-> "rejected", value |-> Pending.value, reason |-> err]]
        /\ failLog' = Append(failLog, err)
        /\ microtasks' = Append(microtasks, i)
        /\ UNCHANGED <<legacyVars, requestVars, doubleVars, pc, options, args, getTileLog, all, blendLog, result,
                       planVars, dimVars, hdrVars, callbackLog,
                   centerVars>>

\* stitchTiles: await Promise.all(getTiles(coords, getTile))
AwaitAll ==
    /\ pc = "issuing"
    /\ ~CanIssue(promises, args.coords)
    /\ all' = AllCalled(Len(promises))
    /\ pc' = "awaiting"
    /\ UNCHANGED <<legacyVars, requestVars, doubleVars, options, args, promises, getTileLog, yielded, failLog,
                   microtasks, blendLog, result, planVars, dimVars, hdrVars, callbackLog,
                   centerVars>>

\* the reaction of Promise.all to the next settled tile promise
PromiseAllReaction ==
    /\ pc # "issuing"
    /\ microtasks # <<>>
    /\ LET i == Head(microtasks)
       IN  all' = IF promises[i].state = "fulfilled"
                  THEN AllOnFulfilled(all, i, promises[i].value)
                  ELSE AllOnRejected(all, promises[i].reason)
    /\ microtasks' = Tail(microtasks)
    /\ UNCHANGED <<legacyVars, requestVars, doubleVars, pc, options, args, promises, getTileLog, yielded, failLog,
                   blendLog, result, planVars, dimVars, hdrVars, callbackLog,
                   centerVars>>

\* stitchTiles resumes after the await: it throws the rejection, or checks the
\* tiles, computes the stats and calls blend
StitchTilesResume ==
    /\ pc = "awaiting"
    /\ all.state # "pending"
    /\ IF all.state = "rejected"
       THEN /\ result' = Throw(all.reason)
            /\ pc' = "settled"
            /\ blendLog' = blendLog
       ELSE IF Len(all.values) = 0
       THEN /\ result' = Throw("No tiles to stitch")
            /\ pc' = "settled"
            /\ blendLog' = blendLog
       ELSE /\ blendLog' = Append(blendLog,
                               blendTiles(all.values, args.offsets, args.dimensions))
            /\ pc' = "blending"
            /\ result' = result
    /\ UNCHANGED <<legacyVars, requestVars, doubleVars, options, args, promises, getTileLog, yielded, failLog,
                   microtasks, all, planVars, dimVars, hdrVars, callbackLog,
                   centerVars>>

\* blend answers with the image: stitchTiles (and abaculus) return { image, stats }
BlendCallbackOk ==
    /\ pc = "blending"
    /\ result' = Return(<<[image |-> blendLog[Len(blendLog)].buffers,
                           stats |-> calculateStats(all.values)]>>)
    /\ pc' = "settled"
    /\ UNCHANGED <<legacyVars, requestVars, doubleVars, options, args, promises, getTileLog, yielded, failLog,
                   microtasks, all, blendLog, planVars, dimVars, hdrVars, callbackLog,
                   centerVars>>

\* blend fails: the error is thrown by stitchTiles
BlendCallbackError ==
    /\ pc = "blending"
    /\ result' = Throw("blend error")
    /\ pc' = "settled"
    /\ UNCHANGED <<legacyVars, requestVars, doubleVars, options, args, promises, getTileLog, yielded, failLog,
                   microtasks, all, blendLog, planVars, dimVars, hdrVars, callbackLog,
                   centerVars>>

Next ==
    \/ AbaculusCall
    \/ StitchTilesCall
    \/ StitchTilesNullCall
    \/ IssueFetch
    \/ TileCallbackOk
    \/ TileCallbackError
    \/ AwaitAll
    \/ PromiseAllReaction
    \/ StitchTilesResume
    \/ BlendCallbackOk
    \/ BlendCallbackError

Spec == Init /\ [][Next]_vars

---------------------------------------------------------------------------
(* headerReduce of the header-merging revision (src/index.js).             *)
(*                                                                         *)
(* A Date is [s, ms]: whole seconds since the epoch and milliseconds.  An  *)
(* HTTP date string names a whole second and is modelled as that second;   *)
(* an md5 digest is modelled as the tagged text it was computed from.  The *)
(* headers of a tile are <<>> (undefined) or <<h>>, where h has an         *)
(* optional Last-Modified date string and an optional ETag, under at most  *)
(* one key each.                                                           *)

MinMTimeSeconds == 1393178400

\* new Date(string) for an HTTP date string
DateParse(str) == [s |-> str, ms |-> 0]

\* date.toUTCString(): the milliseconds are dropped
toUTCString(date) == date.s

\* new Date('Sun, 23 Feb 2014 18:00:00 UTC')
minmtime == DateParse(MinMTimeSeconds)

DateLeq(a, b) == a.s < b.s \/ (a.s = b.s /\ a.ms <= b.ms)

\* new Date(Math.max.apply(Math, times)) for a non-empty list of Dates
RECURSIVE MathMax(_)
MathMax(times) ==
    IF Len(times) = 1 THEN times[1]
    ELSE LET m == MathMax(Tail(times))
         IN  IF DateLeq(m, times[1]) THEN times[1] ELSE m

\* the first reduce of headerReduce: the Last-Modified dates of the headers
RECURSIVE HeaderTimes(_)
HeaderTimes(headers) ==
    IF headers = <<>> THEN <<>>
    ELSE (IF Head(headers) = <<>> THEN <<>>
          ELSE IF Head(headers)[1].lastModified = <<>> THEN <<>>
          ELSE <<DateParse(Head(headers)[1].lastModified[1])>>)
         \o HeaderTimes(Tail(headers))

\* the second reduce of headerReduce: the ETags of the headers
RECURSIVE HeaderEtags(_)
HeaderEtags(headers) ==
    IF headers = <<>> THEN <<>>
    ELSE (IF Head(headers) = <<>> THEN <<>>
          ELSE Head(headers)[1].etag)
         \o HeaderEtags(Tail(headers))

\* WithAnchor comparing the tile dates only
WithAnchorTilesOnly(times, now) ==
    IF Len(times) = 0 THEN Append(times, now) ELSE times

\* if (!times.length) times.push(new Date()); else times.push(minmtime);
WithAnchor(times, now) ==
    IF Len(times) = 0 THEN Append(times, now) ELSE Append(times, minmtime)

ContentType(format) ==
    IF format = "vector.pbf" THEN <<"application/x-protobuf">>
    ELSE IF format = "jpeg" THEN <<"image/jpeg">>
    ELSE IF format = "png" THEN <<"image/png">>
    ELSE <<>>

ContentEncoding(format) == IF format = "vector.pbf" THEN <<"deflate">> ELSE <<>>

\* the ETag composed from the list of tile ETags and the composed Last-Modified
ComposedETag(etag, lastModified) ==
    IF Len(etag) = 0
    THEN [md5 |-> TRUE, of |-> <<>>, date |-> <<lastModified>>]
    ELSE IF Len(etag) = 1
    THEN [md5 |-> FALSE, of |-> etag, date |-> <<>>]
    ELSE [md5 |-> TRUE, of |-> etag, date |-> <<>>]

\* headerReduce(headers, format), the clock reading now
headerReduce(headers, format, now) ==
    LET times == WithAnchor(HeaderTimes(headers), now)
        lastModified == toUTCString(MathMax(times))
    IN  [cacheControl |-> "max-age=3600",
         contentType |-> ContentType(format),
         contentEncoding |-> ContentEncoding(format),
         lastModified |-> lastModified,
         etag |-> ComposedETag(HeaderEtags(headers), lastModified)]

Formats == {"png", "jpeg", "vector.pbf", "webp"}
DateStrings == (MinMTimeSeconds - MaxAge)..(MinMTimeSeconds + MaxAge)
Etags == {"a", "b"}

\* the readings of the clock: before and after the anchor, with milliseconds
Clock ==
    [s : {MinMTimeSeconds - MaxAge - 1, MinMTimeSeconds + MaxAge + 1},
     ms : {0, 500}]

TileHeaders ==
    {<<>>} \cup
    {<<h>> : h \in [lastModified : {<<>>} \cup {<<t>> : t \in DateStrings},
                    etag : {<<>>} \cup {<<e>> : e \in Etags}]}

HeaderInputs ==
    [headers : SeqsUpTo(TileHeaders, MaxHeaders), format : Formats, now : Clock]

InitHeaders ==
    /\ hdrIn \in HeaderInputs
    /\ hdrOut = NotCalled
    /\ callbackLog = <<>>
    /\ PlanIdle
    /\ DimIdle
    /\ StitchIdle
    /\ LegacyIdle
    /\ DoubleIdle
    /\ RequestIdle
    /\ CenterIdle

HeaderReduceCall ==
    /\ hdrOut = NotCalled
    /\ hdrOut' = Return(headerReduce(hdrIn.headers, hdrIn.format, hdrIn.now))
    /\ UNCHANGED <<legacyVars, requestVars, doubleVars, hdrIn, planVars, dimVars, stitchVars, callbackLog,
                   centerVars>>

NextHeaders == HeaderReduceCall

SpecHeaders == InitHeaders /\ [][NextHeaders]_vars

---------------------------------------------------------------------------
(* stitchTiles of the header-merging revision (src/index.js):              *)
(* stitchTiles(coords, format, quality, getTile, callback), where coords   *)
(* is { dimensions: {x, y}, tiles: [{z, x, y, px, py}] }.                  *)

LegacyFormats == {"png", "jpeg"}

\* the headers a tile source yields with a tile
SourceHeaders ==
    {<<>>,
     <<[lastModified |-> <<>>, etag |-> <<"a">>]>>,
     <<[lastModified |-> <<MinMTimeSeconds>>, etag |-> <<>>]>>}

LegacyStitchArgs ==
    {[coords |-> [dimensions |-> [x |-> 2 * Len(c), y |-> 2],
                  tiles |-> [i \in 1..Len(c) |->
                                [z |-> c[i].z, x |-> c[i].x, y |-> c[i].y,
                                 px |-> 2 * (i - 1), py |-> 0]]],
      format |-> f] :
        c \in SeqsUpTo(Addresses, MaxTiles), f \in LegacyFormats}

LegacyNoAnswer ==
    [order |-> 0, sync |-> FALSE, ok |-> FALSE, buffer |-> NoTile,
     headers |-> <<>>, stats |-> <<>>, error |-> ""]

\* the stats of the then handler; Math.round(0 / 0) is NaN, here <<>>
LegacyStats(data) ==
    [tiles |-> Len(data),
     renderAvg |-> IF Len(data) = 0 THEN <<>>
                   ELSE <<MathRound(Frac(RenderTotal(data, Len(data)), Len(data)))>>]

\* an invocation callback(err) and an invocation callback(null, buffer, headers, stats)
CallbackError(err) == [err |-> <<err>>, buffer |-> <<>>, headers |-> <<>>, stats |-> <<>>]
CallbackOk(buffer, headers, stats) ==
    [err |-> <<>>, buffer |-> <<buffer>>, headers |-> <<headers>>, stats |-> <<stats>>]

\* stitchTiles(coords, ...) with a coords object: the synchronous part starts
LegacyStitchTilesCall ==
    /\ pc = "idle"
    /\ \E a \in LegacyStitchArgs : args' = a
    /\ pc' = "issuing"
    /\ UNCHANGED <<legacyVars, requestVars, doubleVars, options, promises, getTileLog, yielded, failLog, microtasks,
                   all, blendLog, result, planVars, dimVars, hdrVars, callbackLog,
                   centerVars>>

\* tiles.map: the next getTile(z, x, y) of the map
LegacyIssueFetch ==
    /\ pc = "issuing"
    /\ CanIssue(promises, args.coords.tiles)
    /\ LET c == args.coords.tiles[Len(promises) + 1]
       IN  getTileLog' = Append(getTileLog, <<c.z, c.x, c.y>>)
    /\ promises' = Append(promises, Pending)
    /\ yielded' = Append(yielded, LegacyNoAnswer)
    /\ UNCHANGED <<legacyVars, requestVars, doubleVars, pc, options, args, failLog, microtasks, all, blendLog, result,
                   planVars, dimVars, hdrVars, callbackLog, centerVars>>

\* the tile source answers fetch i: callback(null, buffer, headers, stats); the
\* promisified getTile is fulfilled with buffer alone, so the then handler is
\* given headers = undefined and takes its default stats = {}
LegacyTileCallbackOk ==
    \E i \in Answerable, headers \in SourceHeaders, render \in Renders :
        LET buffer == [tile |-> [z |-> args.coords.tiles[i].z,
                                 x |-> args.coords.tiles[i].x,
                                 y |-> args.coords.tiles[i].y], call |-> i]
        IN  /\ yielded' = [yielded EXCEPT ![i] =
                   [order |-> Answered + 1, sync |-> pc = "issuing", ok |-> TRUE,
                    buffer |-> buffer, headers |-> headers, stats |-> render,
                    error |-> ""]]
            /\ promises' = [promises EXCEPT ![i] =
                   [state |-> "fulfilled",
                    value |-> [buffer |-> buffer, headers |-> <<>>, stats |-> <<>>,
                               x |-> args.coords.tiles[i].px,
                               y |-> args.coords.tiles[i].py, reencode |-> TRUE],
                    reason |-> ""]]
            /\ microtasks' = Append(microtasks, i)
            /\ UNCHANGED <<legacyVars, requestVars, doubleVars, pc, options, args, getTileLog, failLog, all, blendLog,
                           result, planVars, dimVars, hdrVars, callbackLog,
                   centerVars>>

\* the tile source fails fetch i: callback(err), or getTile throws
LegacyTileCallbackError ==
    \E i \in Answerable, err \in TileErrors :
        /\ yielded' = [yielded EXCEPT ![i] =
               [order |-> Answered + 1, sync |-> pc = "issuing", ok |-> FALSE,
                buffer |-> NoTile, headers |-> <<>>, stats |-> <<>>, error |-> err]]
        /\ promises' = [promises EXCEPT ![i] =
               [state |-> "rejected", value |-> Pending.value, reason |-> err]]
        /\ failLog' = Append(failLog, err)
        /\ microtasks' = Append(microtasks, i)
        /\ UNCHANGED <<legacyVars, requestVars, doubleVars, pc, options, args, getTileLog, all, blendLog, result,
                       planVars, dimVars, hdrVars, callbackLog,
                   centerVars>>

\* Promise.all(fetchings).then(...).catch(...): stitchTiles returns
LegacyPromiseAll ==
    /\ pc = "issuing"
    /\ ~CanIssue(promises, args.coords.tiles)
    /\ all' = AllCalled(Len(promises))
    /\ pc' = "awaiting"
    /\ UNCHANGED <<legacyVars, requestVars, doubleVars, options, args, promises, getTileLog, yielded, failLog,
                   microtasks, blendLog, result, planVars, dimVars, hdrVars,
                   callbackLog, centerVars>>

\* the then handler: the list of headers and the stats are computed from data
\* and blend(data, options) is called
LegacyThen ==
    /\ pc = "awaiting"
    /\ all.state = "fulfilled"
    /\ blendLog' = Append(blendLog,
           [buffers |-> all.values,
            options |-> [width |-> args.coords.dimensions.x,
                         height |-> args.coords.dimensions.y, reencode |-> TRUE]])
    /\ pc' = "blending"
    /\ UNCHANGED <<legacyVars, requestVars, doubleVars, options, args, promises, getTileLog, yielded, failLog,
                   microtasks, all, result, planVars, dimVars, hdrVars, callbackLog,
                   centerVars>>

\* blend answers with the image:
\* callback(null, buffer, headerReduce(headers, format), stats)
LegacyBlendOk ==
    /\ pc = "blending"
    /\ \E now \in Clock :
       \E headers \in {[i \in 1..Len(all.values) |-> all.values[i].headers]} :
       \E composed \in {headerReduce(headers, args.format, now)} :
            /\ hdrIn' = [headers |-> headers, format |-> args.format, now |-> now]
            /\ hdrOut' = Return(composed)
            /\ callbackLog' = Append(callbackLog,
                   CallbackOk(blendLog[Len(blendLog)].buffers, composed,
                              LegacyStats(all.values)))
    /\ pc' = "settled"
    /\ UNCHANGED <<legacyVars, requestVars, doubleVars, options, args, promises, getTileLog, yielded, failLog,
                   microtasks, all, blendLog, result, planVars, dimVars,
                   centerVars>>

\* blend fails: the catch handler calls callback(err)
LegacyBlendError ==
    /\ pc = "blending"
    /\ callbackLog' = Append(callbackLog, CallbackError("blend error"))
    /\ pc' = "settled"
    /\ UNCHANGED <<legacyVars, requestVars, doubleVars, options, args, promises, getTileLog, yielded, failLog,
                   microtasks, all, blendLog, result, planVars, dimVars, hdrVars,
                   centerVars>>

\* a fetch failed: the catch handler calls callback(err)
LegacyCatch ==
    /\ pc = "awaiting"
    /\ all.state = "rejected"
    /\ callbackLog' = Append(callbackLog, CallbackError(all.reason))
    /\ pc' = "settled"
    /\ UNCHANGED <<legacyVars, requestVars, doubleVars, options, args, promises, getTileLog, yielded, failLog,
                   microtasks, all, blendLog, result, planVars, dimVars, hdrVars,
                   centerVars>>

NextCallback ==
    \/ LegacyStitchTilesCall
    \/ LegacyIssueFetch
    \/ LegacyTileCallbackOk
    \/ LegacyTileCallbackError
    \/ LegacyPromiseAll
    \/ PromiseAllReaction
    \/ LegacyThen
    \/ LegacyBlendOk
    \/ LegacyBlendError
    \/ LegacyCatch

SpecCallback == Init /\ [][NextCallback]_vars

---------------------------------------------------------------------------
(* The center resolvers: coordsFromCenter of the callback revisions        *)
(* (src/index.js, src/unnamed/part_000) and getCenterInPixels              *)
(* (src/lib/index.js), called twice on the same center object.             *)
(*                                                                         *)
(* sphericalmercator's px is an external library: the projection for the   *)
(* zoom and size of the call is a function px given with the arguments.    *)

Points == {<<0, 0>>, <<1, 2>>, <<2, 1>>}
CenterDimensions == {[width |-> 2, height |-> 1], [width |-> 3, height |-> 4]}

CenterInputs ==
    [fn : {"coordsFromCenter", "getCenterInPixels"},
     px : [Points -> Points],
     center : {[x |-> q[1], y |-> q[2], width |-> d.width, height |-> d.height] :
                  q \in Points, d \in CenterDimensions},
     scale : Scales, limit : 1..MaxLimit]

\* coordsFromCenter(zoom, scale, center, limit, tileSize): the center object
\* after the call and the outcome of the call (the returned object is center)
coordsFromCenter(px, scale, center, limit) ==
    LET origin == px[<<center.x, center.y>>]
        assigned == [x |-> origin[1], y |-> origin[2],
                     width |-> MathRound(RMul(R(center.width), scale)),
                     height |-> MathRound(RMul(R(center.height), scale))]
    IN  [center |-> assigned,
         outcome |-> IF assigned.width >= limit \/ assigned.height >= limit
                     THEN Throw("Desired image is too large.")
                     ELSE Return(<<assigned>>)]

InitCenter ==
    /\ centerIn \in CenterInputs
    /\ centerObj = centerIn.center
    /\ resolved = <<>>
    /\ PlanIdle
    /\ DimIdle
    /\ StitchIdle
    /\ LegacyIdle
    /\ DoubleIdle
    /\ RequestIdle
    /\ HdrIdle

\* abaculus.coordsFromCenter called on the caller's center object
CoordsFromCenterCall ==
    /\ centerIn.fn = "coordsFromCenter"
    /\ Len(resolved) < 2
    /\ \E r \in {coordsFromCenter(centerIn.px, centerIn.scale, centerObj,
                                   centerIn.limit)} :
            /\ centerObj' = r.center
            /\ resolved' = Append(resolved, r.outcome)
    /\ UNCHANGED <<legacyVars, requestVars, doubleVars, centerIn, planVars, dimVars, stitchVars, hdrVars, callbackLog>>

\* abaculus.getCenterInPixels called on the caller's center object
GetCenterInPixelsCall ==
    /\ centerIn.fn = "getCenterInPixels"
    /\ Len(resolved) < 2
    /\ resolved' = Append(resolved,
           Return(<<getCenterInPixels(centerIn.px[<<centerObj.x, centerObj.y>>])>>))
    /\ UNCHANGED <<legacyVars, requestVars, doubleVars, centerIn, centerObj, planVars, dimVars, stitchVars, hdrVars,
                   callbackLog>>

NextCenter == CoordsFromCenterCall \/ GetCenterInPixelsCall

SpecCenter == InitCenter /\ [][NextCenter]_vars

---------------------------------------------------------------------------
(* Properties of the orchestrator *)

Called == pc # "idle" /\ args # <<>>
N == Len(args.coords)
Settled == pc = "settled"
Failed(msg) == Settled /\ result = Throw(msg)

(* C1: all-or-nothing.  Once a tile fetch has failed, the stitchTiles call *)
(* can only fail, with the error of the first fetch to fail, unchanged,    *)
(* and without image or stats; and it does so without waiting for its      *)
(* siblings: until it has failed, one of its own steps is enabled.         *)
C1_AllOrNothing ==
    (Called /\ failLog # <<>>) =>
        /\ Settled => (result.threw /\ result.error = failLog[1] /\ result.value = <<>>)
        /\ ~Settled => (result = NotCalled /\
                        ENABLED (IssueFetch \/ AwaitAll \/ PromiseAllReaction
                                    \/ StitchTilesResume))

\* two fetches failed with different errors, the second request first, and
\* the call failed with the error of the first failure
C1_Witness ==
    /\ Called /\ Settled
    /\ Len(failLog) >= 2
    /\ failLog[1] # failLog[2]
    /\ yielded[2].order = 1 /\ ~yielded[2].ok
    /\ result.error = failLog[1]

(* C2: the positioned image handed to the compositor at index i is the     *)
(* buffer the tile source yielded for fetch i, at offset i, whatever the   *)
(* order of completion.                                                    *)
C2_RequestOrder ==
    blendLog # <<>> =>
        /\ Len(blendLog[1].buffers) = N
        /\ \A i \in 1..N :
               blendLog[1].buffers[i] =
                   [buffer |-> yielded[i].buffer,
                    x |-> args.offsets[i].x, y |-> args.offsets[i].y]

\* the compositor was called after the second fetch completed before the first
C2_Witness ==
    /\ blendLog # <<>>
    /\ N >= 2
    /\ yielded[2].order < yielded[1].order

(* C3: the compositor is invoked at most once, and only when every one of  *)
(* the N fetches has completed successfully: never with a fetch in flight  *)
(* and never after a failure.                                              *)
C3_FanInJoin ==
    /\ Len(blendLog) <= 1
    /\ blendLog # <<>> =>
        /\ Len(promises) = N
        /\ N >= 1
        /\ \A i \in 1..N : promises[i].state = "fulfilled" /\ yielded[i].ok
        /\ failLog = <<>>

\* the compositor was called once for several tiles
C3_Witness ==
    /\ Len(blendLog) = 1
    /\ N >= 2
    /\ pc = "settled"
    /\ ~result.threw

(* C4: the tile source is invoked once per list position, in order, for    *)
(* all N positions, whether or not another fetch has failed.               *)
C4_OneFetchPerPosition ==
    Called =>
        /\ Len(getTileLog) <= N
        /\ \A i \in 1..Len(getTileLog) :
               getTileLog[i] = <<args.coords[i].z, args.coords[i].x, args.coords[i].y>>
        /\ pc # "issuing" => Len(getTileLog) = N
        /\ (pc = "issuing" /\ Len(getTileLog) < N) => ENABLED IssueFetch

\* the first fetch failed during its own call and the same address was
\* still fetched again at the next position
C4_Witness ==
    /\ Called /\ Settled
    /\ N >= 2
    /\ ~yielded[1].ok /\ yielded[1].sync
    /\ Len(getTileLog) = N
    /\ getTileLog[1] = getTileLog[2]

(* C10: a request without getTile, or with neither center nor bbox, fails  *)
(* with a configuration error, and neither the tile source nor the         *)
(* compositor is invoked.                                                  *)
C10_ConfigurationFailsFast ==
    \A i \in 1..Len(options) :
        LET opts == options[i]
        IN  (~opts.getTile \/ (opts.center = <<>> /\ opts.bbox = <<>>)) =>
                /\ Settled
                /\ result.threw
                /\ result.error =
                       IF ~opts.getTile THEN "Invalid function for getting tiles"
                       ELSE "No coordinates provided."
                /\ getTileLog = <<>>
                /\ blendLog = <<>>
                /\ promises = <<>>

\* a request with a tile source and neither center nor bbox was rejected
C10_Witness ==
    /\ options # <<>>
    /\ options[1].getTile
    /\ options[1].center = <<>> /\ options[1].bbox = <<>>
    /\ Failed("No coordinates provided.")

(* C11: a request is processed only when exactly one of center and bbox is *)
(* supplied: a request with a tile source that supplies both, like one     *)
(* that supplies neither, fails with an error and no tile is fetched for   *)
(* it.                                                                     *)
C11_ExactlyOneCoordinateForm ==
    \A i \in 1..Len(options) :
        LET opts == options[i]
        IN  (opts.getTile /\ ((opts.center = <<>>) <=> (opts.bbox = <<>>))) =>
                /\ Settled
                /\ result.threw
                /\ getTileLog = <<>>
                /\ blendLog = <<>>

\* the sum of the render times the tile source yielded with the first n
\* tiles, 0 for a tile yielded without one
RECURSIVE YieldedRenderTotal(_)
YieldedRenderTotal(n) ==
    IF n = 0 THEN 0
    ELSE YieldedRenderTotal(n - 1)
            + (IF yielded[n].stats = <<>> THEN 0 ELSE yielded[n].stats[1])

(* C12: every successful stitchTiles over N >= 1 tiles returns             *)
(* stats.tiles = N and stats.renderAvg = round(sum of the render times the *)
(* tile source yielded with each tile, 0 for a tile without one, / N).     *)
C12_StatsAggregation ==
    (Called /\ Settled /\ ~result.threw) =>
        /\ N >= 1
        /\ result.value[1].stats.tiles = N
        /\ result.value[1].stats.renderAvg =
               (2 * YieldedRenderTotal(N) + N) \div (2 * N)

\* stitchTiles was called with null as its list of tile coordinates
CalledWithNullCoords == Called /\ "coordsIsNull" \in DOMAIN args

(* C13: stitchTiles called with a null tile-coordinate list fails with an  *)
(* error whose message is exactly 'No coords object.', and neither the     *)
(* tile source nor the compositor is invoked.                              *)
C13_NoCoordsObject ==
    CalledWithNullCoords =>
        /\ Failed("No coords object.")
        /\ getTileLog = <<>>
        /\ blendLog = <<>>

---------------------------------------------------------------------------
(* The grid of the planner in integer arithmetic, for the properties.      *)
(* With center = n/d pixels, ts = tileSize and size = floor(ts * scale):   *)
(*   corner column of canvas point px = floor(n/(d*ts) + (px - w/2)/size)  *)
(*   exact offset of column c         = w/2 + size * (c - n/(d*ts))        *)

GridSize(in) == (in.tileSize * in.scale.num) \div in.scale.den

GridCorner(in, c, p, extent) ==
    (2 * c.num * GridSize(in) + (2 * p - extent) * in.tileSize * c.den)
        \div (2 * in.tileSize * GridSize(in) * c.den)

RawLeft(in) == GridCorner(in, in.center.x, 0, in.dimensions.width)
RawRight(in) == GridCorner(in, in.center.x, in.dimensions.width, in.dimensions.width)
RawTop(in) == GridCorner(in, in.center.y, 0, in.dimensions.height)
RawBottom(in) == GridCorner(in, in.center.y, in.dimensions.height, in.dimensions.height)

InWorld(row, zoom) ==
    IF row < 0 THEN 0 ELSE IF row > 2^zoom - 1 THEN 2^zoom - 1 ELSE row

Columns(in) == RawRight(in) - RawLeft(in) + 1
RawRows(in) == RawBottom(in) - RawTop(in) + 1
ClampedRows(in) == InWorld(RawBottom(in), in.zoom) - InWorld(RawTop(in), in.zoom) + 1

\* the i-th cell of the column-major enumeration of the clamped grid
CellAt(in, i) ==
    [column |-> RawLeft(in) + ((i - 1) \div ClampedRows(in)),
     row |-> InWorld(RawTop(in), in.zoom) + ((i - 1) % ClampedRows(in))]

\* round(extent/2 + size * (cell - n/(d*ts))), a tie going up
GridOffset(in, c, cell, extent) ==
    (extent * in.tileSize * c.den
        + 2 * GridSize(in) * (cell * in.tileSize * c.den - c.num)
        + in.tileSize * c.den) \div (2 * in.tileSize * c.den)

TilesReturned == tilesOut # NotCalled /\ ~tilesOut.threw
OffsetsReturned == offsetsOut # NotCalled /\ ~offsetsOut.threw

---------------------------------------------------------------------------
(* C5: every address returned by tileList has z = zoom, 0 <= x < 2^zoom    *)
(* and 0 <= y < 2^zoom.                                                    *)
C5_AddressesInWorld ==
    TilesReturned =>
        \A i \in 1..Len(tilesOut.value) :
            LET t == tilesOut.value[i]
            IN  /\ t.z = planIn.zoom
                /\ 0 <= t.x /\ t.x < 2^planIn.zoom
                /\ 0 <= t.y /\ t.y < 2^planIn.zoom

\* zoom 1, raw column -1 wrapped to 1, canvas beyond both the top and the bottom row
C5_Witness ==
    /\ TilesReturned
    /\ planIn.zoom = 1
    /\ RawLeft(planIn) = -1
    /\ tilesOut.value[1].x = 1
    /\ RawTop(planIn) < 0
    /\ RawBottom(planIn) > 1

(* C6: tileList and offsetList on identical arguments return lists of      *)
(* equal length (or both throw), and position i of each is derived from    *)
(* the same cell of the column-major grid.                                 *)
C6_IndexAligned ==
    (tilesOut # NotCalled /\ offsetsOut # NotCalled) =>
        /\ tilesOut.threw = offsetsOut.threw
        /\ Len(tilesOut.value) = Len(offsetsOut.value)
        /\ \A i \in 1..Len(tilesOut.value) :
            LET cell == CellAt(planIn, i)
            IN  /\ tilesOut.value[i] =
                       [z |-> planIn.zoom, x |-> cell.column % (2^planIn.zoom),
                        y |-> cell.row]
                /\ offsetsOut.value[i] =
                       [x |-> GridOffset(planIn, planIn.center.x, cell.column,
                                         planIn.dimensions.width),
                        y |-> GridOffset(planIn, planIn.center.y, cell.row,
                                         planIn.dimensions.height)]

\* both lists returned for a grid of several columns and rows, clamped and wrapped
C6_Witness ==
    /\ TilesReturned /\ OffsetsReturned
    /\ Columns(planIn) >= 2
    /\ ClampedRows(planIn) >= 2
    /\ RawRows(planIn) > ClampedRows(planIn)
    /\ RawLeft(planIn) < 0
    /\ Len(offsetsOut.value) = Columns(planIn) * ClampedRows(planIn)

(* C7 as claimed: a canvas that extends above row 0 or below row           *)
(* 2^zoom - 1 gets one tile per cell of its unclamped row span, each       *)
(* out-of-world row addressed as the nearest boundary row.                 *)
C7_EdgeRowsRepeated ==
    TilesReturned =>
        /\ Len(tilesOut.value) = Columns(planIn) * RawRows(planIn)
        /\ \A i \in 1..Len(tilesOut.value) :
               tilesOut.value[i].y =
                   InWorld(RawTop(planIn) + ((i - 1) % RawRows(planIn)), planIn.zoom)

(* C7 amended: the planner clamps the two corner rows and emits one tile   *)
(* per cell of the clamped row span: each column lists the rows            *)
(* clamp(top)..clamp(bottom) once each, and no tile stands for a row       *)
(* outside the world.                                                      *)
C7_RowsOfClampedSpan ==
    TilesReturned =>
        /\ Len(tilesOut.value) = Columns(planIn) * ClampedRows(planIn)
        /\ ClampedRows(planIn) <= RawRows(planIn)
        /\ ClampedRows(planIn) <= 2^planIn.zoom
        /\ \A i \in 1..Len(tilesOut.value) :
               tilesOut.value[i].y =
                   InWorld(RawTop(planIn), planIn.zoom)
                       + ((i - 1) % ClampedRows(planIn))

\* a canvas beyond both the top and the bottom of the world: one tile per world row
C7_Witness ==
    /\ TilesReturned
    /\ planIn.zoom >= 1
    /\ RawTop(planIn) < 0
    /\ RawBottom(planIn) > 2^planIn.zoom - 1
    /\ Len(tilesOut.value) = Columns(planIn) * 2^planIn.zoom

---------------------------------------------------------------------------
DimReturned == dimOut # NotCalled /\ ~dimOut.threw
ProjectedWidth == dimIn.topRight[1] - dimIn.bottomLeft[1]
ProjectedHeight == dimIn.bottomLeft[2] - dimIn.topRight[2]

\* round(v * scale), a tie going up
Scaled(v) == (2 * v * dimIn.scale.num + dimIn.scale.den) \div (2 * dimIn.scale.den)

(* C8: getDimensionsFromBbox returns strictly positive width and height    *)
(* for every bbox of positive projected width and height and every         *)
(* scale > 0, and fails with 'Incorrect coordinates' for every bbox whose  *)
(* projected width or height is <= 0.                                      *)
C8_BboxDimensionsPositive ==
    (dimIn.fn = "getDimensionsFromBbox" /\ dimOut # NotCalled) =>
        /\ (ProjectedWidth > 0 /\ ProjectedHeight > 0 /\ ~dimOut.threw)
               => (dimOut.value.width > 0 /\ dimOut.value.height > 0)
        /\ (ProjectedWidth <= 0 \/ ProjectedHeight <= 0)
               => (dimOut.threw /\ dimOut.error = "Incorrect coordinates")

(* C9 as claimed: both resolvers fail with 'Desired image is too large.'   *)
(* exactly when round(width*scale) >= limit or round(height*scale) >=      *)
(* limit, and return the rounded values otherwise.                         *)
C9_TooLargeExactly ==
    dimOut # NotCalled =>
        LET w == IF dimIn.fn = "scaleDimensions"
                 THEN Scaled(dimIn.dimensions.width) ELSE Scaled(ProjectedWidth)
            h == IF dimIn.fn = "scaleDimensions"
                 THEN Scaled(dimIn.dimensions.height) ELSE Scaled(ProjectedHeight)
        IN  /\ (dimOut.threw /\ dimOut.error = "Desired image is too large.")
                   <=> (w >= dimIn.limit \/ h >= dimIn.limit)
            /\ (w <= dimIn.limit - 1 /\ h <= dimIn.limit - 1)
                   => (~dimOut.threw /\ dimOut.value = [width |-> w, height |-> h])

(* C9 amended: scaleDimensions fails with 'Desired image is too large.'    *)
(* exactly when a rounded side is >= limit; getDimensionsFromBbox does so  *)
(* for a bbox of positive projected width and height, a bbox with a        *)
(* non-positive projected side failing with 'Incorrect coordinates'        *)
(* whatever its size; every returned side is < limit.                      *)
C9_TooLargeUnlessDegenerate ==
    dimOut # NotCalled =>
        LET bbox == dimIn.fn = "getDimensionsFromBbox"
            w == IF bbox THEN Scaled(ProjectedWidth) ELSE Scaled(dimIn.dimensions.width)
            h == IF bbox THEN Scaled(ProjectedHeight) ELSE Scaled(dimIn.dimensions.height)
            degenerate == bbox /\ (ProjectedWidth <= 0 \/ ProjectedHeight <= 0)
        IN  /\ degenerate => (dimOut.threw /\ dimOut.error = "Incorrect coordinates")
            /\ ~degenerate =>
                /\ (dimOut.threw /\ dimOut.error = "Desired image is too large.")
                       <=> (w >= dimIn.limit \/ h >= dimIn.limit)
                /\ (w <= dimIn.limit - 1 /\ h <= dimIn.limit - 1)
                       => (~dimOut.threw /\ dimOut.value = [width |-> w, height |-> h])
            /\ ~dimOut.threw =>
                   (dimOut.value.width < dimIn.limit /\ dimOut.value.height < dimIn.limit)

\* scaleDimensions rejecting a side equal to the limit and accepting limit - 1
C9_Witness ==
    /\ dimIn.fn = "scaleDimensions"
    /\ dimOut # NotCalled
    /\ dimOut.threw
    /\ Scaled(dimIn.dimensions.width) = dimIn.limit
    /\ Scaled(dimIn.dimensions.height) = dimIn.limit - 1

---------------------------------------------------------------------------
HeadersReduced == hdrIn # <<>> /\ hdrOut # NotCalled

\* the Last-Modified seconds carried by the tile headers given to headerReduce
TileTimestamps ==
    {hdrIn.headers[i][1].lastModified[1] :
        i \in {j \in 1..Len(hdrIn.headers) :
                  /\ hdrIn.headers[j] # <<>>
                  /\ hdrIn.headers[j][1].lastModified # <<>>}}

Newest(S) == CHOOSE t \in S : \A u \in S : u <= t

(* C14 as claimed: whenever at least one tile header carries a             *)
(* Last-Modified timestamp, the composed Last-Modified is the maximum of   *)
(* the tiles' timestamps, whatever their value; only when no tile carries  *)
(* one is the current time used.                                           *)
C14_RealTimestampWins ==
    HeadersReduced =>
        hdrOut.value.lastModified =
            IF TileTimestamps = {} THEN hdrIn.now.s ELSE Newest(TileTimestamps)

(* C14 amended: whenever at least one tile header carries a Last-Modified  *)
(* timestamp, the composed Last-Modified is the maximum of the tiles'      *)
(* timestamps and the fixed anchor, so it is never older than the anchor;  *)
(* only when no tile carries one is the current time used, to the second.  *)
C14_AnchorIsFloor ==
    HeadersReduced =>
        /\ TileTimestamps # {} =>
               /\ hdrOut.value.lastModified =
                      Newest(TileTimestamps \cup {MinMTimeSeconds})
               /\ hdrOut.value.lastModified >= MinMTimeSeconds
        /\ TileTimestamps = {} => hdrOut.value.lastModified = hdrIn.now.s

\* every tile timestamp is older than the anchor, the clock is later than
\* the anchor, and the composed Last-Modified is the anchor
C14_Witness ==
    /\ HeadersReduced
    /\ TileTimestamps # {}
    /\ \A t \in TileTimestamps : t < MinMTimeSeconds
    /\ hdrIn.now.s > MinMTimeSeconds
    /\ hdrOut.value.lastModified = MinMTimeSeconds

---------------------------------------------------------------------------
\* the callback of the header-merging stitchTiles was given a result
Delivered == callbackLog # <<>> /\ callbackLog[1].err = <<>>

\* the fetches whose tile source yielded headers carrying an ETag
YieldedWithEtag ==
    {i \in 1..Len(yielded) :
        /\ yielded[i].headers # <<>>
        /\ yielded[i].headers[1].etag # <<>>}

(* C15: the header list given to headerReduce holds, at index i, the       *)
(* headers the tile source yielded for the fetch of tile i, so that when   *)
(* exactly one fetched tile's source headers carry an ETag the headers     *)
(* delivered to the callback carry that ETag verbatim.                     *)
C15_HeadersFromTileSource ==
    Delivered =>
        /\ Len(hdrIn.headers) = Len(args.coords.tiles)
        /\ \A i \in 1..Len(hdrIn.headers) : hdrIn.headers[i] = yielded[i].headers
        /\ \A i \in YieldedWithEtag :
               YieldedWithEtag = {i} =>
                   callbackLog[1].headers[1].etag =
                       [md5 |-> FALSE, of |-> yielded[i].headers[1].etag,
                        date |-> <<>>]

---------------------------------------------------------------------------
(* C16: center and dimension resolution is pure: after coordsFromCenter /  *)
(* getCenterInPixels returns or throws, the caller's center object holds   *)
(* the same x, y, width and height as before the call, and resolving the   *)
(* same object a second time yields the same result as the first.          *)
C16_ResolutionIsPure ==
    centerIn # <<>> =>
        /\ Len(resolved) >= 1 => centerObj = centerIn.center
        /\ Len(resolved) = 2 => resolved[2] = resolved[1]

---------------------------------------------------------------------------
(* C17 as claimed: the list of the planner is the rectangle of cells       *)
(* between the corners floor(centerColumn + (pointX - width/2)/size) and   *)
(* floor(centerRow + (pointY - height/2)/size), each cell once, in         *)
(* column-major order; its length is columns x rows.                       *)
C17_RectangleOfFloorCorners ==
    TilesReturned =>
        /\ Len(tilesOut.value) = Columns(planIn) * RawRows(planIn)
        /\ \A i \in 1..Len(tilesOut.value) :
               tilesOut.value[i] =
                   [z |-> planIn.zoom,
                    x |-> (RawLeft(planIn) + ((i - 1) \div RawRows(planIn)))
                              % (2^planIn.zoom),
                    y |-> RawTop(planIn) + ((i - 1) % RawRows(planIn))]

(* C17 amended: the list of the planner is the rectangle of cells between  *)
(* the floor corners for the columns and the floor corners clamped into    *)
(* [0, 2^zoom - 1] for the rows, each cell once, in column-major order     *)
(* (all rows of a column ascending before the next column); its length is  *)
(* columns x clamped rows.                                                 *)
C17_RectangleOfClampedCorners ==
    TilesReturned =>
        /\ Len(tilesOut.value) = Columns(planIn) * ClampedRows(planIn)
        /\ \A i \in 1..Len(tilesOut.value) :
               tilesOut.value[i] =
                   [z |-> planIn.zoom,
                    x |-> (RawLeft(planIn) + ((i - 1) \div ClampedRows(planIn)))
                              % (2^planIn.zoom),
                    y |-> InWorld(RawTop(planIn), planIn.zoom)
                              + ((i - 1) % ClampedRows(planIn))]
        /\ \A i, j \in 1..Len(tilesOut.value) :
               (i < j /\ j - i < ClampedRows(planIn) * 2^planIn.zoom)
                   => tilesOut.value[i] # tilesOut.value[j]

\* a grid of two columns and two rows whose top corner was clamped: the
\* second tile is the second row of the first column
C17_Witness ==
    /\ TilesReturned
    /\ planIn.zoom >= 1
    /\ Columns(planIn) = 2
    /\ ClampedRows(planIn) = 2
    /\ RawTop(planIn) < 0
    /\ Len(tilesOut.value) = 4
    /\ tilesOut.value[2].x = tilesOut.value[1].x
    /\ tilesOut.value[2].y = tilesOut.value[1].y + 1
    /\ tilesOut.value[3].x # tilesOut.value[1].x
    /\ tilesOut.value[3].y = tilesOut.value[1].y

---------------------------------------------------------------------------
\* 2 * d * tileSize times the exact position of a cell on the canvas:
\* extent/2 + size * (cell - n/(d * tileSize)), for the center coordinate n/d
TwiceScaledPosition(in, c, cell, extent) ==
    extent * in.tileSize * c.den
        + 2 * GridSize(in) * (cell * in.tileSize * c.den - c.num)

\* o is an integer nearest to the exact position of the cell
NearestTo(o, in, c, cell, extent) ==
    /\ (2 * o - 1) * in.tileSize * c.den <= TwiceScaledPosition(in, c, cell, extent)
    /\ TwiceScaledPosition(in, c, cell, extent) <= (2 * o + 1) * in.tileSize * c.den

(* C18: for every enumerated cell, offsetList returns the canvas position  *)
(* of the cell, x = round(width/2 + size*(column - centerColumn)) and      *)
(* y = round(height/2 + size*(row - centerRow)), computed from the         *)
(* unwrapped column and not clipped to the canvas; for zoom 5, scale 4,    *)
(* tileSize 256, center {4096, 4096} and dimensions 1824 x 1832 the tiles  *)
(* are (15,15), (15,16), (16,15), (16,16) with offsets (-112,-108),        *)
(* (-112,916), (912,-108), (912,916), in that order.                       *)
C18_OffsetsAreCanvasPositions ==
    /\ OffsetsReturned =>
           \A i \in 1..Len(offsetsOut.value) :
               /\ NearestTo(offsetsOut.value[i].x, planIn, planIn.center.x,
                            CellAt(planIn, i).column, planIn.dimensions.width)
               /\ NearestTo(offsetsOut.value[i].y, planIn, planIn.center.y,
                            CellAt(planIn, i).row, planIn.dimensions.height)
    /\ (planIn = TestScenario /\ tilesOut # NotCalled) =>
           tilesOut = Return(<<[z |-> 5, x |-> 15, y |-> 15], [z |-> 5, x |-> 15, y |-> 16],
                              [z |-> 5, x |-> 16, y |-> 15], [z |-> 5, x |-> 16, y |-> 16]>>)
    /\ (planIn = TestScenario /\ offsetsOut # NotCalled) =>
           offsetsOut = Return(<<[x |-> -112, y |-> -108], [x |-> -112, y |-> 916],
                                [x |-> 912, y |-> -108], [x |-> 912, y |-> 916]>>)

\* the test scenario, with both lists returned and a negative first offset
C18_Witness ==
    /\ planIn = TestScenario
    /\ TilesReturned /\ OffsetsReturned
    /\ Len(offsetsOut.value) = 4
    /\ offsetsOut.value[1].x < 0 /\ offsetsOut.value[1].y < 0

---------------------------------------------------------------------------
\* the exact position of the cell of offset i, horizontally and vertically
PositionX(i) ==
    Frac(TwiceScaledPosition(planIn, planIn.center.x, CellAt(planIn, i).column,
                             planIn.dimensions.width),
         2 * planIn.tileSize * planIn.center.x.den)
PositionY(i) ==
    Frac(TwiceScaledPosition(planIn, planIn.center.y, CellAt(planIn, i).row,
                             planIn.dimensions.height),
         2 * planIn.tileSize * planIn.center.y.den)

\* o - 1/2 <= a < o + 1/2: o is a rounded to the nearest integer, a tie going up
IsHalfUp(o, a) ==
    /\ (2 * o - 1) * a.den <= 2 * a.num
    /\ 2 * a.num < (2 * o + 1) * a.den

\* |o| - 1/2 <= |a| < |o| + 1/2 with the sign of a: a tie going away from zero
IsHalfAwayFromZero(o, a) ==
    IF a.num >= 0 THEN IsHalfUp(o, a)
    ELSE /\ (2 * o - 1) * a.den < 2 * a.num
         /\ 2 * a.num <= (2 * o + 1) * a.den

\* c <= n/d < c + 1
IsFloor(c, n, d) == c * d <= n /\ n < (c + 1) * d

\* the left corner column before the floor, as a fraction: centerColumn - (width/2)/size
LeftCornerNum ==
    2 * planIn.center.x.num * GridSize(planIn)
        - planIn.dimensions.width * planIn.tileSize * planIn.center.x.den
CornerDen == 2 * planIn.tileSize * GridSize(planIn) * planIn.center.x.den

---------------------------------------------------------------------------
ValidDimensions == planIn.dimensions.width >= 0 /\ planIn.dimensions.height >= 0

(* C20: for every zoom >= 0, every center and every width >= 0 and         *)
(* height >= 0, with a tile footprint of at least one pixel, the           *)
(* enumeration holds at least one cell, so tileList and offsetList do not  *)
(* fail; the error 'No coords object' is raised only when a dimension is   *)
(* negative.                                                               *)
C20_NeverEmptyForValidDimensions ==
    /\ tilesOut # NotCalled =>
           /\ ValidDimensions => (~tilesOut.threw /\ Len(tilesOut.value) >= 1)
           /\ tilesOut.threw =>
                  (tilesOut.error = "No coords object" /\ ~ValidDimensions)
    /\ offsetsOut # NotCalled =>
           /\ ValidDimensions => (~offsetsOut.threw /\ Len(offsetsOut.value) >= 1)
           /\ offsetsOut.threw =>
                  (offsetsOut.error = "No coords object" /\ ~ValidDimensions)

\* an empty canvas wholly above the world still gets one cell
C20_Witness ==
    /\ planIn.dimensions = [width |-> 0, height |-> 0]
    /\ planIn.center.y.num < 0
    /\ RawBottom(planIn) < 0
    /\ TilesReturned /\ OffsetsReturned
    /\ Len(tilesOut.value) = 1
    /\ tilesOut.value[1].y = 0

---------------------------------------------------------------------------
(* JavaScript numbers as IEEE 754 binary64 values                          *)
(*                                                                         *)
(* When the tile size is not a power of two the quotients of the planner   *)
(* are not dyadic and the code's arithmetic rounds.  A double is modelled  *)
(* here as [neg, mant, exp], of value (-1)^neg * mant * 2^exp, where mant  *)
(* is a natural number of any size written in base Limb, least significant *)
(* digit first and without leading zero.  Every operation computes the     *)
(* exact result and rounds it to Precision significant bits, ties to even. *)
(* The exponent is unbounded: the magnitudes of the planner stay far from  *)
(* the subnormal and the overflow ranges.                                  *)

LimbBits == 15
Limb == 2^LimbBits
Precision == 53

\* the element of a set of one element: Only({e : v \in {d}}) is e with v
\* bound to the value of d, which is evaluated once, as the operand of a
\* JavaScript operator and the initialiser of a const are
Only(S) == CHOOSE r \in S : TRUE

RECURSIVE BigOf(_)
BigOf(n) == IF n = 0 THEN <<>> ELSE <<n % Limb>> \o BigOf(n \div Limb)

RECURSIVE BigToInt(_)
BigToInt(a) == IF a = <<>> THEN 0 ELSE a[1] + Limb * BigToInt(Tail(a))

RECURSIVE BigTrim(_)
BigTrim(a) ==
    IF a # <<>> /\ a[Len(a)] = 0 THEN BigTrim(SubSeq(a, 1, Len(a) - 1)) ELSE a

Digit(a, i) == IF i <= Len(a) THEN a[i] ELSE 0

BigAdd(a0, b0) ==
    Only({LET RECURSIVE AddFrom(_, _)
            AddFrom(i, carry) ==
                IF i > Len(a) /\ i > Len(b)
                THEN IF carry = 0 THEN <<>> ELSE <<carry>>
                ELSE Only({<<s % Limb>> \o AddFrom(i + 1, s \div Limb)
        : s \in {Digit(a, i) + Digit(b, i) + carry}})
        IN  AddFrom(1, 0)
        : a \in {a0}, b \in {b0}})

\* a - b for a >= b
BigSub(a0, b0) ==
    Only({LET RECURSIVE SubFrom(_, _)
            SubFrom(i, borrow) ==
                IF i > Len(a)
                THEN <<>>
                ELSE Only({<<IF s < 0 THEN s + Limb ELSE s>>
                         \o SubFrom(i + 1, IF s < 0 THEN 1 ELSE 0)
        : s \in {a[i] - Digit(b, i) - borrow}})
        IN  BigTrim(SubFrom(1, 0))
        : a \in {a0}, b \in {b0}})

\* a < b
BigLess(a0, b0) ==
    Only({LET RECURSIVE LessFrom(_)
            LessFrom(i) ==
                IF i = 0 THEN FALSE
                ELSE IF a[i] # b[i] THEN a[i] < b[i]
                ELSE LessFrom(i - 1)
        IN  IF Len(a) # Len(b) THEN Len(a) < Len(b) ELSE LessFrom(Len(a))
        : a \in {a0}, b \in {b0}})

\* a * n for one digit n
BigMulDigit(a0, n0) ==
    Only({LET RECURSIVE MulFrom(_, _)
            MulFrom(i, carry) ==
                IF i > Len(a)
                THEN IF carry = 0 THEN <<>> ELSE <<carry>>
                ELSE Only({<<p % Limb>> \o MulFrom(i + 1, p \div Limb)
        : p \in {a[i] * n + carry}})
        IN  IF n = 0 THEN <<>> ELSE MulFrom(1, 0)
        : a \in {a0}, n \in {n0}})

BigMul(a0, b0) ==
    Only({LET RECURSIVE MulFrom(_)
            MulFrom(i) ==
                IF i > Len(b)
                THEN <<>>
                ELSE BigAdd(BigMulDigit(a, b[i]), BigTrim(<<0>> \o MulFrom(i + 1)))
        IN  IF a = <<>> THEN <<>> ELSE MulFrom(1)
        : a \in {a0}, b \in {b0}})

\* quotient and remainder of a by n, for 0 < n < Limb
BigDiv(a0, n0) ==
    Only({LET RECURSIVE DivFrom(_, _)
            DivFrom(i, rem) ==
                IF i = 0
                THEN [quo |-> <<>>, rem |-> rem]
                ELSE Only({Only({[quo |-> rest.quo \o <<cur \div n>>, rem |-> rest.rem]
        : rest \in {DivFrom(i - 1, cur % n)}})
        : cur \in {rem * Limb + a[i]}})
        IN  Only({[quo |-> BigTrim(r.quo), rem |-> r.rem]
        : r \in {DivFrom(Len(a), 0)}})
        : a \in {a0}, n \in {n0}})

\* a * 2^k
BigShl(a0, k0) ==
    Only({IF a = <<>>
        THEN <<>>
        ELSE [i \in 1..(k \div LimbBits) |-> 0] \o BigMulDigit(a, 2^(k % LimbBits))
        : a \in {a0}, k \in {k0}})

\* floor(a / 2^k), and whether a is a multiple of 2^k
BigShr(a0, k0) ==
    Only({Only({[quo |-> d.quo,
                 exact |-> d.rem = 0
                           /\ \A i \in 1..(k \div LimbBits) : Digit(a, i) = 0]
        : d \in {BigDiv(SubSeq(a, (k \div LimbBits) + 1, Len(a)), 2^(k % LimbBits))}})
        : a \in {a0}, k \in {k0}})

\* the number of bits of a
BigBits(a0) ==
    Only({LET RECURSIVE BitLength(_)
            BitLength(n) == IF n = 0 THEN 0 ELSE 1 + BitLength(n \div 2)
        IN  IF a = <<>> THEN 0 ELSE (Len(a) - 1) * LimbBits + BitLength(a[Len(a)])
        : a \in {a0}})

\* the double nearest to the exact value x, ties to the even significand
RoundTiesToEven(x0) ==
    Only({IF bits <= Precision
        THEN x
        ELSE Only({Only({[neg |-> x.neg,
                  mant |-> IF kept.rem = 1 /\ (~guarded.exact \/ kept.quo[1] % 2 = 1)
                           THEN BigAdd(kept.quo, <<1>>)
                           ELSE kept.quo,
                  exp |-> x.exp + bits - Precision]
        : kept \in {BigDiv(guarded.quo, 2)}})
        : guarded \in {BigShr(x.mant, bits - Precision - 1)}})
        : x \in {x0}, bits \in {BigBits(x0.mant)}})

\* the double of an integer n, |n| < 2^31
DoubleOf(n) ==
    [neg |-> n < 0, mant |-> BigOf(IF n < 0 THEN -n ELSE n), exp |-> 0]

DoubleNeg(x0) == Only({[x EXCEPT !.neg = ~x.neg]
        : x \in {x0}})

\* the exact sum of two doubles
ExactAdd(x0, y0) ==
    Only({Only({Only({IF x.neg = y.neg
            THEN [neg |-> x.neg, mant |-> BigAdd(a, b), exp |-> e]
            ELSE IF BigLess(a, b)
            THEN [neg |-> y.neg, mant |-> BigSub(b, a), exp |-> e]
            ELSE [neg |-> x.neg, mant |-> BigSub(a, b), exp |-> e]
        : a \in {BigShl(x.mant, x.exp - e)}, b \in {BigShl(y.mant, y.exp - e)}})
        : e \in {IF x.exp < y.exp THEN x.exp ELSE y.exp}})
        : x \in {x0}, y \in {y0}})

\* x + y, x - y and x * y of JavaScript
DoubleAdd(x, y) == RoundTiesToEven(ExactAdd(x, y))
DoubleSub(x, y) == DoubleAdd(x, DoubleNeg(y))
DoubleMul(x0, y0) ==
    Only({RoundTiesToEven([neg |-> x.neg # y.neg, mant |-> BigMul(x.mant, y.mant),
                         exp |-> x.exp + y.exp])
        : x \in {x0}, y \in {y0}})

\* x / n of JavaScript for an integer divisor 0 < n < Limb (the divisors of
\* the planner are 2, tileSize and size): the quotient is computed to more
\* than Precision + 2 bits and a last bit records a non-zero remainder
DivisionBits == 5 * LimbBits
DoubleDiv(x0, n) ==
    Only({RoundTiesToEven([neg |-> x.neg,
                         mant |-> BigAdd(BigShl(d.quo, 1),
                                         IF d.rem = 0 THEN <<>> ELSE <<1>>),
                         exp |-> x.exp - DivisionBits - 1])
        : x \in {x0}, d \in {BigDiv(BigShl(x0.mant, DivisionBits), n)}})

\* Math.floor of a double, as an integer
DoubleFloor(x0) ==
    Only({IF x.exp >= 0
        THEN Only({IF x.neg THEN -v ELSE v
        : v \in {BigToInt(BigShl(x.mant, x.exp))}})
        ELSE Only({Only({IF ~x.neg THEN v ELSE IF s.exact THEN -v ELSE -v - 1
        : v \in {BigToInt(s.quo)}})
        : s \in {BigShr(x.mant, -x.exp)}})
        : x \in {x0}})

\* Math.round of a double: the integer nearest to x, ties towards +infinity
DoubleRound(x) ==
    DoubleFloor(ExactAdd(x, [neg |-> FALSE, mant |-> <<1>>, exp |-> -1]))

---------------------------------------------------------------------------
(* The offsets of the planner in binary64 (src/lib/index.js)               *)
(*                                                                         *)
(* The center and the dimensions are integers, the scale is dyadic, so     *)
(* size = Math.floor(tileSize * scale) is exact; the quotients by tileSize *)
(* and by size, and what is computed from them, are rounded.               *)

MaxDoubleCenter == 8
MaxDoubleWidth == 5

pointToTile64(point, tileSize) ==
    [column |-> DoubleDiv(DoubleOf(point.x), tileSize),
     row |-> DoubleDiv(DoubleOf(point.y), tileSize)]

getTileCoordinateFromPointInPixels64(center, point, dimensions, tileSize, scale, zoom) ==
    Only({Only({Only({[column |-> tileCoordinate.column,
             row |-> ClampRow(tileCoordinate.row, Pow2(zoom))]
        : tileCoordinate \in
            {[column |-> DoubleFloor(DoubleAdd(centerTileCoordinates.column,
                                               tileCordinateOffset.column)),
              row |-> DoubleFloor(DoubleAdd(centerTileCoordinates.row,
                                            tileCordinateOffset.row))]}})
        : tileCordinateOffset \in
            {[column |-> DoubleDiv(DoubleSub(DoubleOf(point.x),
                                   DoubleDiv(DoubleOf(dimensions.width), 2)), size),
              row |-> DoubleDiv(DoubleSub(DoubleOf(point.y),
                                DoubleDiv(DoubleOf(dimensions.height), 2)), size)]}})
        : size \in {MathFloor(RMul(R(tileSize), scale))},
          centerTileCoordinates \in {pointToTile64(center, tileSize)}})

coordinates64(zoom, scale, center, dimensions, tileSize) ==
    Only({Only({IF Len(coords) = 0 THEN Throw("No coords object") ELSE Return(coords)
        : coords \in {ColumnLoop(topLeft.column, bottomRight.column,
                        topLeft.row, bottomRight.row)}})
        : topLeft \in {getTileCoordinateFromPointInPixels64(
              center, [x |-> 0, y |-> 0], dimensions, tileSize, scale, zoom)},
          bottomRight \in {getTileCoordinateFromPointInPixels64(
              center, [x |-> dimensions.width, y |-> dimensions.height],
              dimensions, tileSize, scale, zoom)}})

getOffsetFromCenterInPixels64(center, tileCoordinates, dimensions, tileSize, scale) ==
    Only({[x |-> DoubleRound(DoubleAdd(DoubleDiv(DoubleOf(dimensions.width), 2),
                   DoubleMul(DoubleOf(size), DoubleSub(DoubleOf(tileCoordinates.column),
                                                       centerTileCoordinates.column)))),
         y |-> DoubleRound(DoubleAdd(DoubleDiv(DoubleOf(dimensions.height), 2),
                   DoubleMul(DoubleOf(size), DoubleSub(DoubleOf(tileCoordinates.row),
                                                       centerTileCoordinates.row))))]
        : size \in {MathFloor(RMul(R(tileSize), scale))},
          centerTileCoordinates \in {pointToTile64(center, tileSize)}})

offsetList64(zoom, scale, center, dimensions, tileSize) ==
    Only({IF coords.threw THEN coords
        ELSE Return([i \in 1..Len(coords.value) |->
                        getOffsetFromCenterInPixels64(
                            center, [column |-> coords.value[i].x,
                                     row |-> coords.value[i].y],
                            dimensions, tileSize, scale)])
        : coords \in {coordinates64(zoom, scale, center, dimensions, tileSize)}})

\* tile sizes that are and are not powers of two; scales
DoubleTileSizes == {3, 4, 5}
DoubleScales == {R(1), Frac(3, 2)}

DoubleInputs ==
    [zoom : 0..MaxZoom, scale : DoubleScales, tileSize : DoubleTileSizes,
     center : [x : 0..MaxDoubleCenter, y : 0..1],
     dimensions : [width : 1..MaxDoubleWidth, height : {1}]]

InitDouble ==
    /\ doubleIn \in DoubleInputs
    /\ doubleOut = NotCalled
    /\ PlanIdle
    /\ DimIdle
    /\ StitchIdle
    /\ LegacyIdle
    /\ RequestIdle
    /\ HdrIdle
    /\ CenterIdle

OffsetListCall64 ==
    /\ doubleOut = NotCalled
    /\ doubleOut' = offsetList64(doubleIn.zoom, doubleIn.scale, doubleIn.center,
                                 doubleIn.dimensions, doubleIn.tileSize)
    /\ UNCHANGED <<legacyVars, requestVars, doubleIn, planVars, dimVars, stitchVars, hdrVars, callbackLog,
                   centerVars>>

NextDouble == OffsetListCall64

SpecDouble == InitDouble /\ [][NextDouble]_vars

---------------------------------------------------------------------------
(* Horizontal coverage of the canvas by the columns of offsetList *)

DoubleReturned == doubleOut # NotCalled /\ ~doubleOut.threw

\* the number of rows of each column enumerated for doubleIn
DoubleRows ==
    LET cells == coordinates64(doubleIn.zoom, doubleIn.scale, doubleIn.center,
                               doubleIn.dimensions, doubleIn.tileSize).value
    IN  Cardinality({cells[i].y : i \in 1..Len(cells)})

\* the x offsets of the successive columns of doubleOut
DoubleColumnX ==
    [k \in 1..(Len(doubleOut.value) \div DoubleRows) |->
        doubleOut.value[(k - 1) * DoubleRows + 1].x]

\* the x offsets of the successive columns of offsetsOut
ColumnX ==
    [k \in 1..Columns(planIn) |->
        offsetsOut.value[(k - 1) * ClampedRows(planIn) + 1].x]

\* xs starts at or left of 0, advances by size, and reaches width
CoversWidth(xs, size, width) ==
    /\ xs[1] <= 0
    /\ \A k \in 1..(Len(xs) - 1) : xs[k + 1] = xs[k] + size
    /\ xs[Len(xs)] + size >= width

\* in exact arithmetic (tile size and scale powers of two) the columns of
\* offsetList cover the width of the canvas without gap or overlap
DyadicHorizontalCoverage ==
    (OffsetsReturned /\ planIn.dimensions.width >= 1) =>
        CoversWidth(ColumnX, GridSize(planIn), planIn.dimensions.width)

(* C21: for every center, every width >= 1 and every size =                *)
(* floor(tileSize * scale) >= 1, the x offsets produced by offsetList      *)
(* cover the canvas width without gaps or overlaps: the first column has   *)
(* x <= 0, the x of each next column is exactly size larger than that of   *)
(* the previous one, and the last column has x + size >= width.            *)
C21_HorizontalCoverage ==
    DoubleReturned =>
        CoversWidth(DoubleColumnX, GridSize(doubleIn), doubleIn.dimensions.width)

---------------------------------------------------------------------------
(* A center request planned at several scales (src/lib/index.js 9-24)      *)

\* sphericalMercator.px([lng, lat], zoom) of a projection of the given size
\* (the world spans size * 2^zoom pixels), for a point given by its position
\* in the world, as fractions of the world's width and height from its
\* top-left corner: Math.round of the position in pixels
SphericalMercatorPx(size, point, zoom) ==
    <<MathRound(RMul(RMul(size, R(Pow2(zoom))), point.x)),
      MathRound(RMul(RMul(size, R(Pow2(zoom))), point.y))>>

\* abaculus, lines 13-24, for a center request: the tile list, or the Error
CenterRequestPlan(request, scale) ==
    LET centerInPx == SphericalMercatorPx(RMul(R(request.tileSize), scale),
                                          request.center, request.zoom)
        center == getCenterInPixels(centerInPx)
        dimensions == scaleDimensions(request.dimensions, scale, DefaultLimit)
    IN  IF dimensions.threw
        THEN dimensions
        ELSE tileList(request.zoom, scale, center, dimensions.value, request.tileSize)

RequestScales == {1, 2, 4}
RequestTileSizes == {4, 256}
WorldFractions == {Frac(1, 4), Frac(1, 2), Frac(3, 4)}

RequestInputs ==
    [zoom : 0..MaxZoom, tileSize : RequestTileSizes,
     center : [x : WorldFractions, y : WorldFractions],
     dimensions : [width : 1..MaxDim, height : 1..MaxDim]]

InitRequest ==
    /\ requestIn \in RequestInputs
    /\ plansOut = [s \in RequestScales |-> NotCalled]
    /\ PlanIdle
    /\ DimIdle
    /\ StitchIdle
    /\ LegacyIdle
    /\ DoubleIdle
    /\ HdrIdle
    /\ CenterIdle

\* the request planned at one more scale
CenterRequestCall ==
    /\ \E s \in RequestScales :
        /\ plansOut[s] = NotCalled
        /\ plansOut' = [plansOut EXCEPT ![s] = CenterRequestPlan(requestIn, R(s))]
    /\ UNCHANGED <<legacyVars, requestIn, doubleVars, planVars, dimVars, stitchVars, hdrVars,
                   callbackLog, centerVars>>

NextRequest == CenterRequestCall

SpecRequest == InitRequest /\ [][NextRequest]_vars

PlannedAt(s) == plansOut[s] # NotCalled /\ ~plansOut[s].threw

(* C22: for a center request with fixed longitude/latitude inside the      *)
(* world, fixed width, height, zoom and tileSize, the list of tile         *)
(* addresses obtained through getCenterInPixels, scaleDimensions and       *)
(* tileList at scale 2 (and at scale 4) equals the list obtained at        *)
(* scale 1.                                                                *)
C22_ScaleKeepsArea ==
    \A s \in {2, 4} :
        (PlannedAt(1) /\ PlannedAt(s)) => plansOut[s].value = plansOut[1].value

---------------------------------------------------------------------------
(* The legacy planner: tileList of src/index.js 88-153, which returns one  *)
(* list of {z, x, y, px, py}                                               *)

pointToCoordinate(centerCoordinate, point, width, height, tileSize) ==
    [column |-> MathFloor(RAdd(centerCoordinate.column,
                    RDiv(RSub(R(point.x), RDiv(R(width), R(2))), R(tileSize)))),
     row |-> MathFloor(RAdd(centerCoordinate.row,
                    RDiv(RSub(R(point.y), RDiv(R(height), R(2))), R(tileSize)))),
     zoom |-> centerCoordinate.zoom]

coordinateToPoint(centerCoordinate, coord, width, height, tileSize) ==
    [x |-> RAdd(RDiv(R(width), R(2)),
                RMul(R(tileSize), RSub(R(coord.column), centerCoordinate.column))),
     y |-> RAdd(RDiv(R(height), R(2)),
                RMul(R(tileSize), RSub(R(coord.row), centerCoordinate.row)))]

\* LegacySkipsRow skipping nothing
LegacySkipsNoRow(row, maxTilesInRow) == FALSE

\* if (row < 0 || row >= maxTilesInRow) continue
LegacySkipsRow(row, maxTilesInRow) == row < 0 \/ row >= maxTilesInRow

\* the body of the inner loop for a row that is not skipped
LegacyEntry(centerCoordinate, column, row, width, height, size) ==
    LET coord == [column |-> column, row |-> row, zoom |-> centerCoordinate.zoom]
        point == coordinateToPoint(centerCoordinate, coord, width, height, size)
    IN  [z |-> coord.zoom,
         x |-> WrapColumn(coord.column, Pow2(centerCoordinate.zoom)),
         y |-> coord.row,
         px |-> MathRound(point.x),
         py |-> MathRound(point.y)]

\* for (let row = topLeft.row; row <= bottomRight.row; row++)
RECURSIVE LegacyRowLoop(_, _, _, _, _, _, _)
LegacyRowLoop(centerCoordinate, column, row, lastRow, width, height, size) ==
    IF row <= lastRow
    THEN (IF LegacySkipsRow(row, Pow2(centerCoordinate.zoom))
          THEN <<>>
          ELSE <<LegacyEntry(centerCoordinate, column, row, width, height, size)>>)
         \o LegacyRowLoop(centerCoordinate, column, row + 1, lastRow, width, height, size)
    ELSE <<>>

\* for (let column = topLeft.column; column <= bottomRight.column; column++)
RECURSIVE LegacyColumnLoop(_, _, _, _, _, _, _, _)
LegacyColumnLoop(centerCoordinate, column, lastColumn, firstRow, lastRow, width, height, size) ==
    IF column <= lastColumn
    THEN LegacyRowLoop(centerCoordinate, column, firstRow, lastRow, width, height, size)
         \o LegacyColumnLoop(centerCoordinate, column + 1, lastColumn, firstRow, lastRow,
                             width, height, size)
    ELSE <<>>

\* abaculus.tileList(zoom, scale, center, tileSize) of src/index.js, the
\* center carrying the dimensions
legacyTileList(zoom, scale, center, tileSize) ==
    LET size == MathFloor(RMul(R(tileSize), scale))
        centerCoordinate == [column |-> RDiv(center.x, R(tileSize)),
                             row |-> RDiv(center.y, R(tileSize)),
                             zoom |-> zoom]
        topLeft == pointToCoordinate(centerCoordinate, [x |-> 0, y |-> 0],
                                     center.width, center.height, size)
        bottomRight == pointToCoordinate(centerCoordinate,
                                         [x |-> center.width, y |-> center.height],
                                         center.width, center.height, size)
    IN  Return(LegacyColumnLoop(centerCoordinate, topLeft.column, bottomRight.column,
                                topLeft.row, bottomRight.row,
                                center.width, center.height, size))

LegacyTileListCall ==
    /\ legacyOut = NotCalled
    /\ legacyOut' = legacyTileList(planIn.zoom, planIn.scale,
                        [x |-> planIn.center.x, y |-> planIn.center.y,
                         width |-> planIn.dimensions.width,
                         height |-> planIn.dimensions.height],
                        planIn.tileSize)
    /\ UNCHANGED <<planVars, requestVars, doubleVars, dimVars, stitchVars, hdrVars,
                   callbackLog, centerVars>>

\* both planners called on the same arguments, whose dimensions may be negative
NextLegacyPlan == TileListCall \/ OffsetListCall \/ LegacyTileListCall

SpecLegacyPlan == InitPlanSigned /\ [][NextLegacyPlan]_vars

LegacyReturned == legacyOut # NotCalled /\ ~legacyOut.threw

\* at least one row of the unclamped grid of the canvas, a grid with at least
\* one column, is a row of the world
SomeRowInWorld(in) ==
    /\ RawLeft(in) <= RawRight(in)
    /\ \E row \in RawTop(in)..RawBottom(in) : 0 <= row /\ row < 2^in.zoom

\* the addresses of tilesOut paired by position with the offsets of offsetsOut
PairedLists ==
    [i \in 1..Len(tilesOut.value) |->
        [z |-> tilesOut.value[i].z, x |-> tilesOut.value[i].x,
         y |-> tilesOut.value[i].y,
         px |-> offsetsOut.value[i].x, py |-> offsetsOut.value[i].y]]

(* C23: for every zoom, scale, pixel center, dimensions and tileSize for  *)
(* which at least one unclamped grid row of the canvas lies in            *)
(* [0, 2^zoom), the legacy tileList returns, in the same order, exactly    *)
(* the entries {z, x, y, px, py} obtained by pairing position by position  *)
(* the current tileList addresses with the current offsetList offsets.     *)
C23_LegacyAgreesWithCurrent ==
    (LegacyReturned /\ tilesOut # NotCalled /\ offsetsOut # NotCalled
        /\ SomeRowInWorld(planIn)) =>
        /\ TilesReturned
        /\ OffsetsReturned
        /\ legacyOut.value = PairedLists

\* both planners have returned for a canvas that reaches above the world and
\* spans several columns: the legacy planner skipped rows, the current one
\* clamped them
C23_Witness ==
    /\ LegacyReturned /\ TilesReturned /\ OffsetsReturned
    /\ SomeRowInWorld(planIn)
    /\ RawTop(planIn) < 0
    /\ Columns(planIn) > 1
    /\ Len(legacyOut.value) > 2
    /\ legacyOut.value = PairedLists

---------------------------------------------------------------------------
(* The callback revisions from their entry points (src/index.js 190-412,   *)
(* src/unnamed/part_000): abaculus(options, callback), stitchTiles called  *)
(* with null coords, and a callback that throws when it is given the image *)

\* abaculus.coordsFromBbox, from the projections of the corners of the bbox
coordsFromBbox(bottomLeft, topRight, scale, limit) ==
    LET width == topRight[1] - bottomLeft[1]
        height == bottomLeft[2] - topRight[2]
        center == [x |-> RSub(R(topRight[1]), RDiv(R(width), R(2))),
                   y |-> RAdd(R(topRight[2]), RDiv(R(height), R(2))),
                   width |-> MathRound(RMul(R(width), scale)),
                   height |-> MathRound(RMul(R(height), scale))]
    IN  IF width <= 0 \/ height <= 0
        THEN Throw("Incorrect coordinates")
        ELSE IF center.width >= limit \/ center.height >= limit
        THEN Throw("Desired image is too large.")
        ELSE Return(center)

\* abaculus.tileList of the callback revisions: the loops are those of
\* src/index.js 103-131, the test of the row coming after the wrap of the
\* column; of the coords object, the fields that stitchTiles reads
callbackTileList(zoom, scale, center, tileSize) ==
    [dimensions |-> [x |-> center.width, y |-> center.height],
     tiles |-> legacyTileList(zoom, scale, center, tileSize).value]

\* the options given to abaculus(options, callback); the points are given by
\* their position in the world
LegacyOptionSets ==
    [getTile : BOOLEAN,
     center : {<<>>, <<[x |-> Frac(1, 2), y |-> Frac(1, 2), width |-> 2, height |-> 1]>>},
     bbox : {<<>>,
             <<[bottomLeft |-> [x |-> R(0), y |-> R(1)],
                topRight |-> [x |-> R(1), y |-> R(0)]]>>,
             <<[bottomLeft |-> [x |-> R(1), y |-> R(0)],
                topRight |-> [x |-> R(0), y |-> R(1)]]>>},
     zoom : {<<>>},
     limit : {<<>>, <<2>>},
     tileSize : {<<2>>}]

\* abaculus, the two tests of the options: the Error given to the callback
LegacyConfigurationError(opts) ==
    IF ~opts.getTile THEN <<"Invalid function for getting tiles">>
    ELSE IF opts.center = <<>> /\ opts.bbox = <<>> THEN <<"No coordinates provided.">>
    ELSE <<>>

\* abaculus, from the defaults to tileList: the arguments of stitchTiles, or
\* the Error that coordsFromCenter or coordsFromBbox throws
LegacyRequestCoords(opts) ==
    LET zoom == OrElse(opts.zoom, DefaultZoom)
        scale == R(1)
        limit == OrElse(opts.limit, DefaultLimit)
        tileSize == OrElse(opts.tileSize, DefaultTileSize)
        size == RMul(R(tileSize), scale)
        center ==
            IF opts.center # <<>>
            THEN LET c == opts.center[1]
                     px == [p \in {<<c.x, c.y>>} |->
                               SphericalMercatorPx(size, [x |-> p[1], y |-> p[2]], zoom)]
                     out == coordsFromCenter(px, scale, c, limit).outcome
                 IN  IF out.threw THEN out
                     ELSE Return([x |-> R(out.value[1].x), y |-> R(out.value[1].y),
                                  width |-> out.value[1].width,
                                  height |-> out.value[1].height])
            ELSE coordsFromBbox(
                     SphericalMercatorPx(size, opts.bbox[1].bottomLeft, zoom),
                     SphericalMercatorPx(size, opts.bbox[1].topRight, zoom),
                     scale, limit)
    IN  IF center.threw THEN center
        ELSE Return([coords |-> callbackTileList(zoom, scale, center.value, tileSize),
                     format |-> "png"])

\* abaculus(options, callback): a configuration error is given to the
\* callback; an Error of coordsFromCenter or coordsFromBbox is thrown to the
\* caller; otherwise stitchTiles starts on the planned coords
LegacyAbaculusCall ==
    /\ pc = "idle"
    /\ \E opts \in LegacyOptionSets :
       \E err \in {LegacyConfigurationError(opts)} :
            /\ options' = <<opts>>
            /\ IF err # <<>>
               THEN /\ callbackLog' = Append(callbackLog, CallbackError(err[1]))
                    /\ pc' = "settled"
                    /\ UNCHANGED <<args, result>>
               ELSE \E plan \in {LegacyRequestCoords(opts)} :
                    IF plan.threw
                    THEN /\ result' = plan
                         /\ pc' = "settled"
                         /\ UNCHANGED <<args, callbackLog>>
                    ELSE /\ args' = plan.value
                         /\ pc' = "issuing"
                         /\ UNCHANGED <<result, callbackLog>>
    /\ UNCHANGED <<promises, getTileLog, yielded, failLog, microtasks, all, blendLog,
                   planVars, legacyVars, requestVars, doubleVars, dimVars, hdrVars,
                   centerVars>>

\* stitchTiles(null, format, quality, getTile, callback):
\* return callback(new Error('No coords object.'))
LegacyStitchTilesNullCall ==
    /\ pc = "idle"
    /\ callbackLog' = Append(callbackLog, CallbackError("No coords object."))
    /\ pc' = "settled"
    /\ UNCHANGED <<options, args, promises, getTileLog, yielded, failLog, microtasks,
                   all, blendLog, result, planVars, legacyVars, requestVars,
                   doubleVars, dimVars, hdrVars, centerVars>>

\* what a throwing callback throws
CallbackThrown == "Error thrown by the callback"

\* blend answers with the image and callback(null, buffer, headers, stats)
\* throws: the promise of the then handler is rejected with what it threw
LegacyBlendOkCallbackThrows ==
    /\ pc = "blending"
    /\ \E now \in Clock :
       \E headers \in {[i \in 1..Len(all.values) |-> all.values[i].headers]} :
       \E composed \in {headerReduce(headers, args.format, now)} :
            /\ hdrIn' = [headers |-> headers, format |-> args.format, now |-> now]
            /\ hdrOut' = Return(composed)
            /\ callbackLog' = Append(callbackLog,
                   CallbackOk(blendLog[Len(blendLog)].buffers, composed,
                              LegacyStats(all.values)))
    /\ pc' = "caught"
    /\ UNCHANGED <<options, args, promises, getTileLog, yielded, failLog, microtasks,
                   all, blendLog, result, planVars, legacyVars, requestVars,
                   doubleVars, dimVars, centerVars>>

\* .catch(err => callback(err)) for the Error thrown by the callback
LegacyCatchThrown ==
    /\ pc = "caught"
    /\ callbackLog' = Append(callbackLog, CallbackError(CallbackThrown))
    /\ pc' = "settled"
    /\ UNCHANGED <<options, args, promises, getTileLog, yielded, failLog, microtasks,
                   all, blendLog, result, planVars, legacyVars, requestVars,
                   doubleVars, dimVars, hdrVars, centerVars>>

NextCallbackRevisions ==
    \/ NextCallback
    \/ LegacyAbaculusCall
    \/ LegacyStitchTilesNullCall
    \/ LegacyBlendOkCallbackThrows
    \/ LegacyCatchThrown

SpecCallbackRevisions == Init /\ [][NextCallbackRevisions]_vars

(* C24: every call of abaculus(options, callback) or of                    *)
(* stitchTiles(..., callback) invokes the callback exactly once, for every *)
(* outcome (configuration error, invalid bbox extent, too-large image,     *)
(* tile fetch failure, compositor failure, success), also when the         *)
(* callback throws during its success invocation, and no error escapes as  *)
(* a synchronous throw.  As a property of the states: the callback is      *)
(* never invoked twice, no call throws, and a call that has come to its    *)
(* end has invoked the callback.                                           *)
C24_CallbackExactlyOnce ==
    /\ Len(callbackLog) <= 1
    /\ ~result.threw
    /\ pc = "settled" => Len(callbackLog) = 1

=============================================================================
